---- MODULE Spec2Model ----
(***************************************************************************)
(* Message correlation and processing pipeline of the WhatsApp message     *)
(* tracker: the per-sender session state machine (SessionCorrelator), the  *)
(* queued processing stage (MessageProcessor with GroqClient and           *)
(* KafkaClient) and the phone normalisation (GroqClient).                  *)
(*                                                                         *)
(* The specifications share the variables:                                 *)
(*   Spec       the correlator with two senders and the cache ceilings of  *)
(*              the source (10000 and 1000), which a bounded run never     *)
(*              reaches;                                                   *)
(*   SpecBurst  the same correlator with one sender, one more message id   *)
(*              and one more message per session, so that three messages   *)
(*              of one sender can arrive and a session can hold two;       *)
(*   SpecEvict  as SpecBurst with both cache ceilings scaled down so that  *)
(*              the batch eviction happens;                                *)
(*   SpecCaches two senders, both cache ceilings scaled down, one text;     *)
(*   SpecTimeouts  one sender under each of several configured default     *)
(*              timeouts;                                                  *)
(*   SpecSlots  as SpecBurst with the texts of two mobile numbers and a     *)
(*              name only;                                                 *)
(*   SpecQueue  the correlator of one sender whose records are sent to the  *)
(*              raw-messages topic;                                        *)
(*   SpecProc   one consumer of the raw queue handling items one by one     *)
(*              (SpecProcFair: every step that can be taken is taken);     *)
(*   SpecSerial the same consumer with one more item in the raw queue and   *)
(*              one answer of the extraction service (SpecSerialFair);     *)
(*   SpecClient handleIncomingMessage of the WhatsApp client on its own;    *)
(*   SpecClassifier  identifySlot applied to texts built from words;        *)
(*   SpecPhone  normalizePhoneNumber applied to a bounded set of strings.  *)
(***************************************************************************)
EXTENDS Integers, Sequences, FiniteSets, TLC

VARIABLES
    limits,               \* the ceilings of the two deduplication caches and the
                          \* senders, message ids and number of stored messages
                          \* of this run; never changes
    sessions,             \* this.sessions: Map senderId -> session, in insertion order
    timers,               \* this.timers: senderId -> timer handle
    orphanTimers,         \* for each sender, the timeouts that are scheduled and
                          \* that this.timers no longer refers to
    processedSessions,    \* this.processedSessions: Set, in insertion order
    processedMessageIds,  \* this.processedMessageIds: Set, in insertion order
    emitted,              \* log of all emit('session', ...) calls, in order: for each
                          \* record its session, its sessionId and its message ids
    justEmitted,          \* the records handed to emit('session', ...) by the last
                          \* operation, in full
    inFlight,             \* the records handed to producer.send for the raw-messages
                          \* topic whose send has not settled, in the order of the calls
    now,                  \* Date.now()
    nextSerial,           \* number of sessions created so far (identity of a session)
    nStored,              \* number of messages stored so far
    maxId,                \* the largest message id submitted so far
    last,                 \* the operation that produced this state and how it ended;
                          \* for addMessage also whether the id had been submitted
                          \* before, whether the seen-message cache held it, the
                          \* id and the text of the message unless it is a duplicate,
                          \* whether the text is noise and whether the sender's
                          \* timer was scheduled when the call began
    rawQueue,             \* the items of the raw-messages topic not yet consumed
    runnerFree,           \* the consumer's runner is not awaiting a call of eachMessage
    pc,                   \* where the consumer's eachMessage handler stands
    cur,                  \* the item being handled (0: none)
    attempt,              \* extractContactInfo: the loop variable
    waits,                \* extractContactInfo: the delays awaited for the current item
    parsed,               \* process: parsedData
    err,                  \* the error caught last
    db,                   \* contacts table: its rows, in the order of their ids
    parsedTopic,          \* the parsed-messages topic (the success sink)
    deadLetter,           \* the dead-letter-queue topic
    faults,               \* what failed while the current item was handled
    handled,              \* for each item whose handler has ended: how it went
    phoneIn,              \* normalizePhoneNumber: the argument
    phoneOut,             \* normalizePhoneNumber: the value returned
    phoneDone,            \* normalizePhoneNumber has returned
    allowedSender,        \* config.whatsapp.allowedSender
    incoming,             \* the message last given to handleIncomingMessage
    nIncoming,            \* how many messages handleIncomingMessage was given
    toCorrelator,         \* the 'message' events, each passed to addMessage
    slotText,             \* identifySlot: the argument
    slotLabel,            \* identifySlot: the value returned (Null: not called yet)
    isShuttingDown,       \* Application.isShuttingDown
    shutdownPc,           \* where the shutdown handler is: "running" (not entered),
                          \* "stopping", "disconnecting", "exited"
    isProducerConnected,  \* KafkaClient.isProducerConnected
    signals,              \* how many shutdown signals the process has received
    flushes,              \* how many times the shutdown handler called flushAll
    disconnects,          \* how many times it called kafkaClient.disconnect
    shutdownEmitted       \* the serials of the records emitted by that flushAll

corrVars == <<limits, sessions, timers, orphanTimers, processedSessions, processedMessageIds,
              emitted, justEmitted, inFlight, now, nextSerial, nStored, maxId, last>>

-----------------------------------------------------------------------------
(* Bounds of the model *)

NumIds == 2            \* message ids of Spec; SpecBurst and SpecEvict have one more
MaxTime == 1           \* the clock runs from 0 to MaxTime
MaxMessages == 2       \* config.correlation.maxMessagesPerSession (10), scaled down
MaxStored == 2         \* SpecEvict stops accepting messages after this many were stored
SmallSeenCeiling == 2       \* SpecEvict: the ceiling 10000 of processedMessageIds, scaled down
SmallProcessedCeiling == 2  \* SpecEvict: the ceiling 1000 of processedSessions, scaled down

(* Ceilings of the source *)
SeenCeiling == 10000
SeenEvictCount == 5000
ProcessedCeiling == 1000
ProcessedEvictCount == 500

(* Adaptive timeouts of the source, in seconds *)
CompleteTimeout == 10
PartialTimeout == 30
DefaultTimeout == 120

Senders == {"s1", "s2"}
Times == 0..MaxTime

Null == "null"
NoTimer == [pending |-> FALSE, dur |-> 0, armedAt |-> 0, set |-> FALSE]

Range(seq) == {seq[i] : i \in 1..Len(seq)}

-----------------------------------------------------------------------------
(* Text Classifier.  A text is one of a catalogue of concrete strings; what *)
(* the regular expressions of the source answer on it is tabulated, and the *)
(* classifiers combine those answers as the code does.                      *)

TextInfo ==
    [t \in {"hi", "9876543210", "+919123456780", "Rahul Sharma", "near city road",
            "call me later"} |->
        CASE t = "hi" ->
               [len |-> 2, cleanLen |-> 2, noisePattern |-> TRUE,
                mobilePattern |-> FALSE, namePattern |-> FALSE,
                addressKeywords |-> FALSE, tokens |-> 1]
          [] t = "9876543210" ->
               [len |-> 10, cleanLen |-> 10, noisePattern |-> FALSE,
                mobilePattern |-> TRUE, namePattern |-> FALSE,
                addressKeywords |-> FALSE, tokens |-> 1]
          [] t = "+919123456780" ->
               [len |-> 13, cleanLen |-> 13, noisePattern |-> FALSE,
                mobilePattern |-> TRUE, namePattern |-> FALSE,
                addressKeywords |-> FALSE, tokens |-> 1]
          [] t = "Rahul Sharma" ->
               [len |-> 12, cleanLen |-> 12, noisePattern |-> FALSE,
                mobilePattern |-> FALSE, namePattern |-> TRUE,
                addressKeywords |-> FALSE, tokens |-> 2]
          [] t = "near city road" ->
               [len |-> 14, cleanLen |-> 14, noisePattern |-> FALSE,
                mobilePattern |-> FALSE, namePattern |-> FALSE,
                addressKeywords |-> TRUE, tokens |-> 3]
          [] t = "call me later" ->
               [len |-> 13, cleanLen |-> 13, noisePattern |-> FALSE,
                mobilePattern |-> FALSE, namePattern |-> FALSE,
                addressKeywords |-> FALSE, tokens |-> 3]]

Texts == DOMAIN TextInfo

isNoise(text) ==
    IF TextInfo[text].len < 2 THEN TRUE
    ELSE IF TextInfo[text].cleanLen < 15 THEN TextInfo[text].noisePattern
    ELSE FALSE

\* identifySlot, given what the three patterns answer on the text and the
\* length of text.split(/\s+/)
SlotOf(info) ==
    IF info.mobilePattern THEN "mobile"
    ELSE IF info.namePattern THEN "name"
    ELSE IF info.addressKeywords \/ info.tokens > 5 THEN "address"
    ELSE "unknown"

identifySlot(text) == SlotOf(TextInfo[text])

-----------------------------------------------------------------------------
(* identifySlot on texts that are built from words.  A text is a sequence   *)
(* of words; between two words stands one blank, or two if `wide`; `lead`   *)
(* and `trail` say whether a blank stands before the first and after the    *)
(* last word.  What the patterns answer on a single word is tabulated.      *)

MaxHeadWords == 2
MaxFillers == 4

WordInfo ==
    [w \in {"Rahul", "Near", "road", "ok", "9876543210"} |->
        CASE w = "Rahul" -> [capitalized |-> TRUE, keyword |-> FALSE, mobile |-> FALSE]
          [] w = "Near" -> [capitalized |-> TRUE, keyword |-> TRUE, mobile |-> FALSE]
          [] w = "road" -> [capitalized |-> FALSE, keyword |-> TRUE, mobile |-> FALSE]
          [] w = "ok" -> [capitalized |-> FALSE, keyword |-> FALSE, mobile |-> FALSE]
          [] w = "9876543210" ->
               [capitalized |-> FALSE, keyword |-> FALSE, mobile |-> TRUE]]

Words == DOMAIN WordInfo

\* Up to MaxHeadWords words of any kind, then up to MaxFillers times "ok"
WordSeqs ==
    {head \o [i \in 1..k |-> "ok"] :
        head \in UNION {[1..n -> Words] : n \in 0..MaxHeadWords}, k \in 0..MaxFillers}

BuiltTexts == [words : WordSeqs, lead : BOOLEAN, trail : BOOLEAN, wide : BOOLEAN]

\* /(\+91|0)?[6-9]\d{9}/.test(text): a blank is no digit, so a match lies
\* within one word
MobilePattern(text) == \E i \in 1..Len(text.words) : WordInfo[text.words[i]].mobile

\* /^[A-Z][a-z]+(\s[A-Z][a-z]+){1,2}$/.test(text.trim())
NamePattern(text) ==
    /\ Len(text.words) \in {2, 3}
    /\ \A i \in 1..Len(text.words) : WordInfo[text.words[i]].capitalized
    /\ ~text.wide

\* addressKeywords.test(text)
AddressKeywords(text) == \E i \in 1..Len(text.words) : WordInfo[text.words[i]].keyword

\* text.split(/\s+/).length: a blank before the first word or after the last
\* one leaves an empty string at that end of the array, and a text without
\* words gives [''] or ['', '']
SplitLength(text) ==
    IF text.words = <<>>
    THEN (IF text.lead \/ text.trail THEN 2 ELSE 1)
    ELSE Len(text.words) + (IF text.lead THEN 1 ELSE 0) + (IF text.trail THEN 1 ELSE 0)

BuiltInfo(text) ==
    [mobilePattern |-> MobilePattern(text), namePattern |-> NamePattern(text),
     addressKeywords |-> AddressKeywords(text), tokens |-> SplitLength(text)]

classifierVars == <<slotText, slotLabel>>

NoText == [words |-> <<>>, lead |-> FALSE, trail |-> FALSE, wide |-> FALSE]

ClassifierIdle ==
    /\ slotText = NoText
    /\ slotLabel = Null

shutVars == <<isShuttingDown, shutdownPc, isProducerConnected, signals, flushes,
              disconnects, shutdownEmitted>>

\* The application after start: the producer is connected (index.js:41) and
\* no shutdown signal has arrived.
ShutIdle ==
    /\ isShuttingDown = FALSE
    /\ shutdownPc = "running"
    /\ isProducerConnected = TRUE
    /\ signals = 0
    /\ flushes = 0
    /\ disconnects = 0
    /\ shutdownEmitted = {}

\* The texts of all specifications but SpecSlots
BaseTexts == Texts \ {"+919123456780"}

\* The texts of SpecSlots: two that are classified mobile and a name
SlotTexts == {"9876543210", "+919123456780", "Rahul Sharma"}

Messages == [id : limits.ids, senderId : limits.senders, text : limits.texts]

-----------------------------------------------------------------------------
(* The correlator's state as one value, so that its methods are operators   *)
(* from state to state.                                                     *)

Corr ==
    [limits |-> limits, sessions |-> sessions, timers |-> timers,
     orphans |-> orphanTimers,
     processedSessions |-> processedSessions,
     processedMessageIds |-> processedMessageIds,
     emitted |-> emitted, justEmitted |-> <<>>, inFlight |-> inFlight, now |-> now,
     nextSerial |-> nextSerial, nStored |-> nStored,
     isProducerConnected |-> isProducerConnected]

HasSession(ss, senderId) == \E i \in 1..Len(ss) : ss[i].senderId = senderId

SessionIndex(ss, senderId) == CHOOSE i \in 1..Len(ss) : ss[i].senderId = senderId

GetSession(ss, senderId) == ss[SessionIndex(ss, senderId)]

DeleteSession_Clear(ss, senderId) == <<>>

\* this.sessions.delete(senderId)
DeleteSession(ss, senderId) == SelectSeq(ss, LAMBDA e : e.senderId # senderId)

\* Map.set: an existing key keeps its place, a new key goes last.
SetSession(ss, session) ==
    IF HasSession(ss, session.senderId)
    THEN [ss EXCEPT ![SessionIndex(ss, session.senderId)] = session]
    ELSE Append(ss, session)

TrimCache_Newest(cache, ceiling, count) ==
    IF Len(cache) > ceiling
    THEN SubSeq(cache, 1, Len(cache) - (IF count < Len(cache) THEN count ELSE Len(cache)))
    ELSE cache

\* The oldest `count` entries of a cache are dropped once it exceeds `ceiling`.
TrimCache(cache, ceiling, count) ==
    IF Len(cache) > ceiling
    THEN SubSeq(cache, (IF count < Len(cache) THEN count ELSE Len(cache)) + 1, Len(cache))
    ELSE cache

SessionIdOf(senderId, startedAt) == <<senderId, startedAt>>

SessionData_LastFirst(session, sessionId) ==
    [sessionId |-> sessionId,
     senderId |-> session.senderId,
     senderNumber |-> session.senderId,
     messageCount |-> Len(session.messages),
     combinedText |-> [i \in 1..Len(session.messages) |->
                          session.messages[Len(session.messages) + 1 - i].text],
     messages |-> session.messages,
     slots |-> session.slots,
     startedAt |-> session.startedAt,
     serial |-> session.serial]

\* processSession: sessionData.  combinedText, the texts joined by newline, is
\* kept as the sequence of the texts.
SessionData(session, sessionId) ==
    [sessionId |-> sessionId,
     senderId |-> session.senderId,
     senderNumber |-> session.senderId,
     messageCount |-> Len(session.messages),
     combinedText |-> [i \in 1..Len(session.messages) |-> session.messages[i].text],
     messages |-> session.messages,
     slots |-> session.slots,
     startedAt |-> session.startedAt,
     serial |-> session.serial]

\* The listener of 'session' that Application.start registers:
\* kafkaClient.sendRawMessage(session), keyed by session.senderNumber.  It runs
\* inside emit up to the call of producer.send; KafkaClient.send throws
\* before that call if the producer is not connected, and the listener logs it.
SessionListener(st, sessionData) ==
    IF st.limits.listener /\ st.isProducerConnected
    THEN Append(st.inFlight, [key |-> sessionData.senderNumber,
                              serial |-> sessionData.serial])
    ELSE st.inFlight

\* this.emit('session', sessionData)
Emit(st, sessionData) ==
    [st EXCEPT
        !.justEmitted = Append(@, sessionData),
        !.inFlight = SessionListener(st, sessionData),
        !.emitted = Append(@, [serial |-> sessionData.serial,
                               sessionId |-> sessionData.sessionId,
                               ids |-> [i \in 1..Len(sessionData.messages) |->
                                           sessionData.messages[i].id]])]

\* clearTimeout(this.timers.get(senderId))
ClearTimeout(st, senderId) == [st EXCEPT !.timers[senderId].pending = FALSE]

\* this.timers.delete(senderId): a timeout still scheduled stays scheduled
TimersDelete(st, senderId) ==
    [st EXCEPT !.orphans[senderId] = @ + (IF st.timers[senderId].pending THEN 1 ELSE 0),
               !.timers[senderId] = NoTimer]

\* if (this.timers.has(senderId)) { clearTimeout(...); this.timers.delete(senderId); }
ClearAndDeleteTimer(st, senderId) ==
    IF st.timers[senderId].set
    THEN TimersDelete(ClearTimeout(st, senderId), senderId)
    ELSE st

ProcessSession_NoCleanup(st, senderId) ==
    IF ~HasSession(st.sessions, senderId) THEN st
    ELSE LET session == GetSession(st.sessions, senderId)
             sessionId == SessionIdOf(senderId, session.startedAt)
         IN IF Len(session.messages) = 0 THEN st
            ELSE Emit(st, SessionData(session, sessionId))

ProcessSession(st, senderId) ==
    IF ~HasSession(st.sessions, senderId) THEN st
    ELSE LET session == GetSession(st.sessions, senderId)
             sessionId == SessionIdOf(senderId, session.startedAt)
         IN IF Len(session.messages) = 0 THEN st
            ELSE IF sessionId \in Range(st.processedSessions)
            THEN [st EXCEPT !.sessions = DeleteSession(@, senderId)]
            ELSE LET marked == ClearAndDeleteTimer(
                               [st EXCEPT
                                   !.processedSessions =
                                       TrimCache(Append(@, sessionId), st.limits.processed,
                                                 st.limits.processedEvict)],
                               senderId)
                     sent == Emit(marked, SessionData(session, sessionId))
                 IN [sent EXCEPT !.sessions = DeleteSession(@, senderId)]

ResetTimer_NoClear(st, senderId, timeout) ==
    [st EXCEPT
        !.orphans[senderId] = @ + (IF st.timers[senderId].pending THEN 1 ELSE 0),
        !.timers[senderId] =
            [pending |-> TRUE, dur |-> timeout, armedAt |-> st.now, set |-> TRUE]]

\* resetTimer: clearTimeout of the handle in this.timers, setTimeout,
\* this.timers.set
ResetTimer(st, senderId, timeout) ==
    LET cleared == IF st.timers[senderId].set THEN ClearTimeout(st, senderId) ELSE st
    IN [cleared EXCEPT
           !.orphans[senderId] = @ + (IF cleared.timers[senderId].pending THEN 1 ELSE 0),
           !.timers[senderId] =
               [pending |-> TRUE, dur |-> timeout, armedAt |-> st.now, set |-> TRUE]]

FilledSlots(slots) == Cardinality({k \in DOMAIN slots : slots[k] # Null})

AdaptiveTimeout_Default(slots, timeoutSeconds) == timeoutSeconds

\* addMessage: adaptiveTimeoutMs, in seconds; timeoutSeconds is
\* config.correlation.timeoutSeconds
AdaptiveTimeout(slots, timeoutSeconds) ==
    IF slots.name # Null /\ slots.mobile # Null THEN CompleteTimeout
    ELSE IF FilledSlots(slots) >= 1 THEN PartialTimeout
    ELSE timeoutSeconds

NewSession(st, senderId) ==
    [senderId |-> senderId,
     messages |-> <<>>,
     slots |-> [name |-> Null, mobile |-> Null, address |-> Null],
     startedAt |-> st.now,
     lastMessageAt |-> st.now,
     serial |-> st.nextSerial + 1]

SlotCollision_Never(st, message) == FALSE

\* addMessage: session && slot !== 'unknown' && session.slots && session.slots[slot]
SlotCollision(st, message) ==
    /\ HasSession(st.sessions, message.senderId)
    /\ identifySlot(message.text) # "unknown"
    /\ GetSession(st.sessions, message.senderId).slots[identifySlot(message.text)] # Null

ReachedMaximum_Never(st, session) == FALSE

\* session.messages.length >= this.maxMessages
ReachedMaximum(st, session) == Len(session.messages) >= st.limits.maxMessages

\* addMessage from "Identify slot" on: the message is neither a duplicate nor noise.
StoreMessage(st, message) ==
    LET senderId == message.senderId
        slot == identifySlot(message.text)
        st1 == IF SlotCollision(st, message) THEN ProcessSession(st, senderId) ELSE st
        fresh == SlotCollision(st, message) \/ ~HasSession(st.sessions, senderId)
        st2 == IF fresh
               THEN [st1 EXCEPT !.sessions = SetSession(@, NewSession(st1, senderId)),
                                !.nextSerial = @ + 1]
               ELSE st1
        s0 == GetSession(st2.sessions, senderId)
        s1 == [s0 EXCEPT
                 !.slots = IF slot # "unknown" THEN [@ EXCEPT ![slot] = message.text] ELSE @,
                 !.messages = Append(@, [id |-> message.id, text |-> message.text]),
                 !.lastMessageAt = st2.now]
        st3 == [st2 EXCEPT !.sessions = SetSession(@, s1), !.nStored = @ + 1]
        st4 == ResetTimer(st3, senderId, AdaptiveTimeout(s1.slots, st.limits.timeout))
    IN IF ReachedMaximum(st4, s1) THEN ProcessSession(st4, senderId) ELSE st4

IsDuplicateNever(st, id) == FALSE

IsDuplicate(st, id) == id \in Range(st.processedMessageIds)

RecordSeen(st, id) ==
    [st EXCEPT !.processedMessageIds =
        TrimCache(Append(@, id), st.limits.seen, st.limits.seenEvict)]

AddMessage_NoNoiseFilter(st, message) ==
    IF IsDuplicate(st, message.id) THEN st
    ELSE StoreMessage(RecordSeen(st, message.id), message)

AddMessage(st, message) ==
    IF IsDuplicate(st, message.id) THEN st
    ELSE IF isNoise(message.text) THEN RecordSeen(st, message.id)
    ELSE StoreMessage(RecordSeen(st, message.id), message)

RemoveMessage_KeepEmpty(st, senderId, messageId) ==
    IF ~HasSession(st.sessions, senderId) THEN st
    ELSE LET session == GetSession(st.sessions, senderId)
             kept == SelectSeq(session.messages, LAMBDA m : m.id # messageId)
         IN [st EXCEPT !.sessions = SetSession(@, [session EXCEPT !.messages = kept])]

RemoveMessage_MissClearsTimer(st, senderId, messageId) ==
    IF ~HasSession(st.sessions, senderId) THEN st
    ELSE LET session == GetSession(st.sessions, senderId)
             kept == SelectSeq(session.messages, LAMBDA m : m.id # messageId)
         IN IF Len(kept) = Len(session.messages)
            THEN ClearAndDeleteTimer(st, senderId)
            ELSE IF Len(kept) = 0
            THEN ClearAndDeleteTimer([st EXCEPT !.sessions = DeleteSession(@, senderId)],
                                     senderId)
            ELSE [st EXCEPT !.sessions = SetSession(@, [session EXCEPT !.messages = kept])]

RemoveMessage_ReevaluatesSlots(st, senderId, messageId) ==
    IF ~HasSession(st.sessions, senderId) THEN st
    ELSE LET session == GetSession(st.sessions, senderId)
             kept == SelectSeq(session.messages, LAMBDA m : m.id # messageId)
             slots == [k \in DOMAIN session.slots |->
                          IF \E m \in Range(kept) : m.text = session.slots[k]
                          THEN session.slots[k] ELSE Null]
         IN IF Len(kept) < Len(session.messages) /\ Len(kept) = 0
            THEN ClearAndDeleteTimer([st EXCEPT !.sessions = DeleteSession(@, senderId)],
                                     senderId)
            ELSE [st EXCEPT !.sessions = SetSession(@, [session EXCEPT !.messages = kept,
                                                                      !.slots = slots])]

RemoveMessage(st, senderId, messageId) ==
    IF ~HasSession(st.sessions, senderId) THEN st
    ELSE LET session == GetSession(st.sessions, senderId)
             kept == SelectSeq(session.messages, LAMBDA m : m.id # messageId)
         IN IF Len(kept) < Len(session.messages) /\ Len(kept) = 0
            THEN ClearAndDeleteTimer([st EXCEPT !.sessions = DeleteSession(@, senderId)],
                                     senderId)
            ELSE [st EXCEPT !.sessions = SetSession(@, [session EXCEPT !.messages = kept])]

\* flushAll visits the keys of the Map in insertion order; deleting the entry
\* being visited does not disturb the iteration.
RECURSIVE FlushKeys(_, _)
FlushKeys(st, keys) ==
    IF keys = <<>> THEN st
    ELSE FlushKeys(ProcessSession(st, Head(keys)), Tail(keys))

FlushAll(st) ==
    FlushKeys(st, [i \in 1..Len(st.sessions) |-> st.sessions[i].senderId])

-----------------------------------------------------------------------------
(* GroqClient.normalizePhoneNumber.  A string is a sequence of characters;  *)
(* null is NullString, which is no sequence of characters.                  *)

NullString == <<"null">>

Digits == {"0", "1", "2", "3", "4", "5", "6", "7", "8", "9"}

MinPhoneLength == 10
MaxPhoneLength == 15

normalizePhoneNumber(phone) ==
    IF phone = NullString \/ phone = <<>> THEN NullString
    ELSE LET stripped == SelectSeq(phone, LAMBDA c : c \in Digits \cup {"+"})
             normalized == IF stripped # <<>> /\ Head(stripped) = "+"
                           THEN Tail(stripped)
                           ELSE stripped
         IN IF Len(normalized) < MinPhoneLength \/ Len(normalized) > MaxPhoneLength
            THEN phone
            ELSE normalized

phoneVars == <<phoneIn, phoneOut, phoneDone>>

PhoneIdle ==
    /\ phoneIn = NullString
    /\ phoneOut = NullString
    /\ phoneDone = FALSE

-----------------------------------------------------------------------------
(* WhatsApp client: WhatsAppClient.handleIncomingMessage.  A JID is a       *)
(* sequence of characters that ends with its suffix, kept as one element.   *)

MaxIncoming == 2
MaxJidLength == 2

UserSuffix == "@s.whatsapp.net"
GroupSuffix == "@g.us"

JidDigits == {"1", "2"}

JidNumbers == UNION {[1..n -> JidDigits] : n \in 1..MaxJidLength}

Jids == {number \o <<suffix>> : number \in JidNumbers, suffix \in {UserSuffix, GroupSuffix}}

\* WHATSAPP_ALLOWED_SENDER: empty, or phone@s.whatsapp.net
AllowedSenderSettings == {<<>>} \cup {number \o <<UserSuffix>> : number \in JidNumbers}

\* process.env.WHATSAPP_ALLOWED_SENDER || null
AllowedSenderConfig(setting) == IF setting = <<>> THEN NullString ELSE setting

\* String.prototype.replace(part, ''): the first occurrence is removed
ReplaceFirst(s, part) ==
    IF \E i \in 1..Len(s) : s[i] = part
    THEN LET i == CHOOSE i \in 1..Len(s) :
                     s[i] = part /\ \A j \in 1..(i - 1) : s[j] # part
         IN SubSeq(s, 1, i - 1) \o SubSeq(s, i + 1, Len(s))
    ELSE s

\* allowedSender.replace(/[^0-9]/g, '')
StripNonDigits(s) == SelectSeq(s, LAMBDA c : c \in Digits)

\* String.prototype.includes
Includes(s, part) ==
    \E i \in 1..(Len(s) - Len(part) + 1) : SubSeq(s, i, i + Len(part) - 1) = part

SenderNumberOf(remoteJid) == ReplaceFirst(ReplaceFirst(remoteJid, UserSuffix), GroupSuffix)

\* handleIncomingMessage: the filter by allowed sender lets the message through
SenderAllowed(allowed, senderNumber) ==
    allowed # NullString => Includes(senderNumber, StripNonDigits(allowed))

NoIncoming == [fromMe |-> FALSE, hasText |-> FALSE, remoteJid |-> <<>>]

IncomingMessages ==
    [fromMe : {FALSE}, hasText : {TRUE}, remoteJid : Jids]
        \cup {[fromMe |-> TRUE, hasText |-> TRUE, remoteJid |-> <<"1", UserSuffix>>],
               [fromMe |-> FALSE, hasText |-> FALSE, remoteJid |-> <<"1", UserSuffix>>]}

clientVars == <<allowedSender, incoming, nIncoming, toCorrelator>>

ClientIdle ==
    /\ allowedSender = NullString
    /\ incoming = NoIncoming
    /\ nIncoming = 0
    /\ toCorrelator = <<>>

-----------------------------------------------------------------------------
(* Processing stage: KafkaClient.initConsumer (eachMessage),                *)
(* MessageProcessor.process and GroqClient.extractContactInfo.  Confidence  *)
(* is counted in hundredths.                                                *)

NumItems == 1

maxRetries == 3
LowConfidence == 30
DefaultConfidence == 50

Items == 1..NumItems

\* SpecSerial has one more item in the raw queue
SerialItems == 1..(NumItems + 1)

ExamplePhone == <<"+", "9", "1", " ", "9", "8", "7", "6", "5", " ", "4", "3", "2", "1", "0">>

\* What a successful call of the extraction service returns: the confidence
\* (given FALSE: the answer has no confidence field) and the mobile.
Extractions ==
    [given : {TRUE}, confidence : {0, 25, 30, 100}, mobile : {ExamplePhone}]
        \cup {[given |-> FALSE, confidence |-> 0, mobile |-> NullString]}

NoExtraction == [given |-> FALSE, confidence |-> 0, mobile |-> NullString]

\* parsedData before extractContactInfo has returned, and an empty row
NoResult ==
    [sessionId |-> 0,
     extracted |-> [name |-> Null, address |-> Null, mobile |-> NullString, confidence |-> 0],
     error |-> Null,
     status |-> Null,
     succeeded |-> FALSE,
     returned |-> NoExtraction]

SaveContact_Insert(table, parsedData) == Append(table, parsedData)

\* DatabaseClient.saveContact: INSERT OR REPLACE INTO contacts, where
\* session_id is UNIQUE.  The row that holds the session_id is deleted and the
\* new row gets the next id of the AUTOINCREMENT key, so it is the last row.
SaveContact(table, parsedData) ==
    Append(SelectSeq(table, LAMBDA row : row.sessionId # parsedData.sessionId), parsedData)

\* SELECT * FROM contacts WHERE session_id = ?
RowOf(table, sessionId) ==
    IF \E k \in 1..Len(table) : table[k].sessionId = sessionId
    THEN table[CHOOSE k \in 1..Len(table) : table[k].sessionId = sessionId]
    ELSE NoResult

procVars == <<rawQueue, runnerFree, pc, cur, attempt, waits, parsed, err, db, parsedTopic,
              deadLetter, faults, handled>>

ProcIdle ==
    /\ rawQueue = <<>>
    /\ runnerFree = TRUE
    /\ pc = "idle"
    /\ cur = 0
    /\ attempt = 0
    /\ waits = <<>>
    /\ parsed = NoResult
    /\ err = Null
    /\ db = <<>>
    /\ parsedTopic = <<>>
    /\ deadLetter = <<>>
    /\ faults = {}
    /\ handled = <<>>

\* extractContactInfo, the value returned by a successful attempt.  The fields
\* succeeded and returned are not fields of the source: they keep what the
\* extraction service answered, for the properties to refer to.
ExtractedResult(item, extracted) ==
    [sessionId |-> item,
     extracted |-> [name |-> "Rahul Sharma",
                    address |-> Null,
                    mobile |-> normalizePhoneNumber(extracted.mobile),
                    confidence |-> IF ~extracted.given \/ extracted.confidence = 0
                                   THEN DefaultConfidence
                                   ELSE extracted.confidence],
     error |-> Null,
     status |-> Null,
     succeeded |-> TRUE,
     returned |-> extracted]

\* extractContactInfo, the value returned when all retries failed
ExhaustedResult(item, message) ==
    [sessionId |-> item,
     extracted |-> [name |-> Null, address |-> Null, mobile |-> NullString, confidence |-> 0],
     error |-> message,
     status |-> "failed",
     succeeded |-> FALSE,
     returned |-> NoExtraction]

\* process, the failedData of the catch block
FailedData(item, message) ==
    [sessionId |-> item,
     extracted |-> [name |-> Null, address |-> Null, mobile |-> NullString, confidence |-> 0],
     error |-> message,
     status |-> "failed",
     succeeded |-> parsed.succeeded,
     returned |-> parsed.returned]

\* process, "Determine status based on extraction result"
StatusOf(parsedData) ==
    IF parsedData.error # Null THEN "failed"
    ELSE IF parsedData.extracted.confidence < LowConfidence THEN "low_confidence"
    ELSE "processed"

Backoff_Fixed(n) == 2

\* extractContactInfo: Math.pow(2, attempt), in seconds
Backoff(n) == 2 ^ n

EachMessageSettles_AtOnce(handlerEnded) == TRUE

\* eachMessage awaits messageHandler(value), which awaits process(session),
\* and awaits sendToDeadLetter: its promise settles when they have ended.
EachMessageSettles(handlerEnded) == handlerEnded

\* The call of eachMessage ends; escapes: with an exception that leaves it,
\* on which the runner stops handing out items.
Ended(how, escapes) ==
    /\ runnerFree' = (EachMessageSettles(TRUE) /\ ~escapes)
    /\ handled' = Append(handled, [item |-> cur, faults |-> faults', process |-> how,
                                    exhausted |-> parsed.error = "extraction error",
                                    escaped |-> escapes])
    /\ pc' = "idle"
    /\ cur' = 0
    /\ attempt' = 0
    /\ parsed' = NoResult
    /\ err' = Null

\* eachMessage: JSON.parse of the payload, then the handler is entered
Consume(parses) ==
    /\ runnerFree
    /\ rawQueue # <<>>
    /\ runnerFree' = EachMessageSettles(FALSE)
    /\ cur' = Head(rawQueue)
    /\ rawQueue' = Tail(rawQueue)
    /\ waits' = <<>>
    /\ IF parses
       THEN /\ pc' = "extract"
            /\ attempt' = 1
            /\ faults' = {}
            /\ err' = Null
       ELSE /\ pc' = "consumerCatch"
            /\ attempt' = 0
            /\ faults' = {"parse"}
            /\ err' = "parse error"
    /\ UNCHANGED <<parsed, db, parsedTopic, deadLetter, handled, corrVars, phoneVars, clientVars, classifierVars, shutVars>>

\* extractContactInfo: one pass of the retry loop in which the call succeeds
AttemptSucceeds(extracted) ==
    /\ pc = "extract"
    /\ parsed' = ExtractedResult(cur, extracted)
    /\ pc' = "save"
    /\ UNCHANGED <<rawQueue, runnerFree, cur, attempt, waits, err, db, parsedTopic,
                   deadLetter, faults, handled, corrVars, phoneVars, clientVars, classifierVars, shutVars>>

\* extractContactInfo: one pass of the retry loop in which the call fails
AttemptFails ==
    /\ pc = "extract"
    /\ faults' = faults \cup {"extract"}
    /\ IF attempt < maxRetries
       THEN /\ waits' = Append(waits, Backoff(attempt))
            /\ pc' = "backoff"
            /\ UNCHANGED parsed
       ELSE /\ parsed' = ExhaustedResult(cur, "extraction error")
            /\ pc' = "save"
            /\ UNCHANGED waits
    /\ UNCHANGED <<rawQueue, runnerFree, cur, attempt, err, db, parsedTopic, deadLetter,
                   handled, corrVars, phoneVars, clientVars, classifierVars, shutVars>>

\* extractContactInfo: the backoff delay has passed
BackoffOver ==
    /\ pc = "backoff"
    /\ attempt' = attempt + 1
    /\ pc' = "extract"
    /\ UNCHANGED <<rawQueue, runnerFree, cur, waits, parsed, err, db, parsedTopic,
                   deadLetter, faults, handled, corrVars, phoneVars, clientVars, classifierVars, shutVars>>

\* process: the status is set and database.saveContact(parsedData) is called
ClassifyAndSave(saves) ==
    /\ pc = "save"
    /\ parsed' = [parsed EXCEPT !.status = StatusOf(parsed)]
    /\ IF saves
       THEN /\ db' = SaveContact(db, parsed')
            /\ pc' = "sendParsed"
            /\ UNCHANGED <<err, faults>>
       ELSE /\ pc' = "catch"
            /\ err' = "store error"
            /\ faults' = faults \cup {"store"}
            /\ UNCHANGED db
    /\ UNCHANGED <<rawQueue, runnerFree, cur, attempt, waits, parsedTopic, deadLetter,
                   handled, corrVars, phoneVars, clientVars, classifierVars, shutVars>>

\* process: kafkaClient.sendParsedMessage(parsedData)
SendParsed(sends) ==
    /\ pc = "sendParsed"
    /\ IF sends
       THEN /\ parsedTopic' = Append(parsedTopic, parsed)
            /\ pc' = "broadcast"
            /\ UNCHANGED <<err, faults>>
       ELSE /\ pc' = "catch"
            /\ err' = "send error"
            /\ faults' = faults \cup {"send"}
            /\ UNCHANGED parsedTopic
    /\ UNCHANGED <<rawQueue, runnerFree, cur, attempt, waits, parsed, db, deadLetter,
                   handled, corrVars, phoneVars, clientVars, classifierVars, shutVars>>

\* process: websocket.broadcastNewContact, then return parsedData
BroadcastAndReturn(broadcasts) ==
    /\ pc = "broadcast"
    /\ IF broadcasts
       THEN /\ UNCHANGED faults
            /\ Ended("returned", FALSE)
       ELSE /\ pc' = "catch"
            /\ err' = "broadcast error"
            /\ faults' = faults \cup {"broadcast"}
            /\ UNCHANGED <<runnerFree, cur, attempt, parsed, handled>>
    /\ UNCHANGED <<rawQueue, waits, db, parsedTopic, deadLetter, corrVars, phoneVars, clientVars, classifierVars, shutVars>>

\* process, catch block: database.saveContact(failedData)
CatchAndSaveFailed(saves) ==
    /\ pc = "catch"
    /\ IF saves
       THEN /\ db' = SaveContact(db, FailedData(cur, err))
            /\ pc' = "processDeadLetter"
            /\ UNCHANGED <<err, faults>>
       ELSE /\ pc' = "consumerCatch"
            /\ err' = "store error"
            /\ faults' = faults \cup {"store"}
            /\ UNCHANGED db
    /\ UNCHANGED <<rawQueue, runnerFree, cur, attempt, waits, parsed, parsedTopic,
                   deadLetter, handled, corrVars, phoneVars, clientVars, classifierVars, shutVars>>

DeadLetterRethrows_OnFailure(sends) == ~sends

\* KafkaClient.sendToDeadLetter: catch (dlqError) logs and does not rethrow
DeadLetterRethrows(sends) == FALSE

\* KafkaClient.sendToDeadLetter: a failed send is logged and swallowed
SendToDeadLetter(topic, entry, sends) ==
    IF sends THEN Append(topic, entry) ELSE topic

\* process, catch block: sendToDeadLetter(session, error), broadcastStatus,
\* throw error
ProcessDeadLetter(sends, broadcasts) ==
    /\ pc = "processDeadLetter"
    /\ deadLetter' = SendToDeadLetter(deadLetter,
                        [item |-> cur, error |-> err, from |-> "process"], sends)
    /\ faults' = faults \cup (IF sends THEN {} ELSE {"deadLetter"})
                        \cup (IF broadcasts THEN {} ELSE {"broadcast"})
    /\ err' = IF broadcasts THEN err ELSE "broadcast error"
    /\ pc' = "consumerCatch"
    /\ UNCHANGED <<rawQueue, runnerFree, cur, attempt, waits, parsed, db, parsedTopic,
                   handled, corrVars, phoneVars, clientVars, classifierVars, shutVars>>

ConsumerDeadLetter_Dropped(sends) ==
    /\ pc = "consumerCatch"
    /\ UNCHANGED deadLetter
    /\ faults' = faults
    /\ Ended(IF "parse" \in faults THEN "not called" ELSE "threw", FALSE)
    /\ UNCHANGED <<rawQueue, waits, db, parsedTopic, corrVars, phoneVars, clientVars, classifierVars, shutVars>>

\* eachMessage, catch block: sendToDeadLetter(message, error)
ConsumerDeadLetter(sends) ==
    /\ pc = "consumerCatch"
    /\ deadLetter' = SendToDeadLetter(deadLetter,
                        [item |-> cur, error |-> err, from |-> "consumer"], sends)
    /\ faults' = faults \cup (IF sends THEN {} ELSE {"deadLetter"})
    /\ Ended(IF "parse" \in faults THEN "not called" ELSE "threw",
             DeadLetterRethrows(sends))
    /\ UNCHANGED <<rawQueue, waits, db, parsedTopic, corrVars, phoneVars, clientVars, classifierVars, shutVars>>

-----------------------------------------------------------------------------
(* Actions of the correlator *)

SetCorrFields(st) ==
    /\ sessions' = st.sessions
    /\ timers' = st.timers
    /\ orphanTimers' = st.orphans
    /\ processedSessions' = st.processedSessions
    /\ processedMessageIds' = st.processedMessageIds
    /\ emitted' = st.emitted
    /\ justEmitted' = st.justEmitted
    /\ inFlight' = st.inFlight
    /\ nextSerial' = st.nextSerial
    /\ nStored' = st.nStored

SetCorr(st) ==
    /\ SetCorrFields(st)
    /\ UNCHANGED <<limits, now, procVars, phoneVars, clientVars, classifierVars, shutVars>>

AddOutcome(st, message) ==
    IF IsDuplicate(st, message.id) THEN "duplicate"
    ELSE IF isNoise(message.text) THEN "noise"
    ELSE IF SlotCollision(st, message) THEN "collision"
    ELSE "stored"

\* whatsappClient 'message' -> sessionCorrelator.addMessage(message)
AddMessageAct(message) ==
    /\ nStored < limits.maxStored
    /\ message.id <= maxId + 1
    /\ maxId' = IF message.id > maxId THEN message.id ELSE maxId
    /\ SetCorr(AddMessage(Corr, message))
    /\ last' = [op |-> "add", senderId |-> message.senderId,
                outcome |-> AddOutcome(Corr, message),
                id |-> IF AddOutcome(Corr, message) # "duplicate"
                       THEN message.id ELSE 0,
                text |-> IF AddOutcome(Corr, message) # "duplicate"
                         THEN message.text ELSE Null,
                repeated |-> message.id <= maxId,
                cached |-> message.id \in Range(processedMessageIds),
                noise |-> isNoise(message.text),
                rearmed |-> timers[message.senderId].pending]

\* How removeMessage finds the message: not there, there among others, or
\* there as the only message of the session.
RemoveOutcome(st, senderId, messageId) ==
    IF ~HasSession(st.sessions, senderId) THEN "absent"
    ELSE LET ids == {m.id : m \in Range(GetSession(st.sessions, senderId).messages)}
         IN IF messageId \notin ids THEN "absent"
            ELSE IF ids = {messageId} THEN "emptied"
            ELSE "removed"

\* whatsappClient 'revoke' -> sessionCorrelator.removeMessage(senderId, messageId)
RemoveMessageAct(senderId, messageId) ==
    /\ SetCorr(RemoveMessage(Corr, senderId, messageId))
    /\ UNCHANGED maxId
    /\ last' = [op |-> "remove", senderId |-> senderId,
                outcome |-> RemoveOutcome(Corr, senderId, messageId),
                id |-> IF RemoveOutcome(Corr, senderId, messageId) = "removed"
                       THEN messageId ELSE 0]

\* The timeouts of a sender that can run their callback now: the one in
\* this.timers, if it is scheduled and its duration can have passed (a timer
\* fires after its duration, so not in the instant in which it was armed), and
\* any scheduled timeout that this.timers no longer refers to.
Fireable(senderId) ==
    {w \in {"current", "orphan"} :
        \/ w = "current" /\ timers[senderId].pending /\ now > timers[senderId].armedAt
        \/ w = "orphan" /\ orphanTimers[senderId] > 0}

\* The callback of setTimeout in resetTimer: this.processSession(senderId).
\* A timeout runs its callback once.
TimerFire(senderId) ==
    /\ \E which \in Fireable(senderId) :
          /\ SetCorr(ProcessSession(
                 IF which = "current"
                 THEN [Corr EXCEPT !.timers[senderId].pending = FALSE]
                 ELSE [Corr EXCEPT !.orphans[senderId] = @ - 1],
                 senderId))
          /\ last' = [op |-> "fire", senderId |-> senderId,
                      outcome |-> IF HasSession(sessions, senderId)
                                  THEN "session" ELSE "absent",
                      which |-> which]
    /\ UNCHANGED maxId

\* shutdown -> sessionCorrelator.flushAll()
FlushAllAct ==
    /\ SetCorr(FlushAll(Corr))
    /\ UNCHANGED maxId
    /\ last' = [op |-> "flush", senderId |-> "all",
                outcome |-> "flushed"]

Tick ==
    /\ now < MaxTime
    /\ now' = now + 1
    /\ last' = [op |-> "tick", senderId |-> "none", outcome |-> "tick"]
    /\ justEmitted' = <<>>
    /\ UNCHANGED <<limits, sessions, timers, orphanTimers, processedSessions,
                   processedMessageIds, emitted, inFlight, nextSerial, nStored, maxId,
                   procVars, phoneVars, clientVars, classifierVars, shutVars>>

InitCorr(lim) ==
    /\ limits = lim
    /\ sessions = <<>>
    /\ timers = [s \in Senders |-> NoTimer]
    /\ orphanTimers = [s \in Senders |-> 0]
    /\ processedSessions = <<>>
    /\ processedMessageIds = <<>>
    /\ emitted = <<>>
    /\ justEmitted = <<>>
    /\ inFlight = <<>>
    /\ now = 0
    /\ nextSerial = 0
    /\ nStored = 0
    /\ maxId = 0
    /\ last = [op |-> "init", senderId |-> "none", outcome |-> "init"]
    /\ ProcIdle
    /\ PhoneIdle
    /\ ClientIdle
    /\ ClassifierIdle
    /\ ShutIdle

Init ==
    InitCorr([seen |-> SeenCeiling, seenEvict |-> SeenEvictCount,
              processed |-> ProcessedCeiling, processedEvict |-> ProcessedEvictCount,
              senders |-> Senders, ids |-> 1..NumIds, maxStored |-> NumIds,
                 maxMessages |-> MaxMessages, listener |-> FALSE, texts |-> BaseTexts,
              timeout |-> DefaultTimeout])

InitBurst ==
    InitCorr([seen |-> SeenCeiling, seenEvict |-> SeenEvictCount,
              processed |-> ProcessedCeiling, processedEvict |-> ProcessedEvictCount,
              senders |-> {"s1"}, ids |-> 1..(NumIds + 1), maxStored |-> NumIds + 1,
              maxMessages |-> MaxMessages + 1, listener |-> FALSE, texts |-> BaseTexts,
              timeout |-> DefaultTimeout])

\* The source evicts half of the ceiling (5000 of 10000, 500 of 1000).
InitEvict ==
    InitCorr([seen |-> SmallSeenCeiling, seenEvict |-> SmallSeenCeiling \div 2,
              processed |-> SmallProcessedCeiling,
              processedEvict |-> SmallProcessedCeiling \div 2,
              senders |-> {"s1"}, ids |-> 1..(NumIds + 1), maxStored |-> MaxStored,
              maxMessages |-> MaxMessages, listener |-> FALSE, texts |-> BaseTexts,
              timeout |-> DefaultTimeout])

Next ==
    \/ \E message \in Messages : AddMessageAct(message)
    \/ \E senderId \in limits.senders, messageId \in limits.ids :
          RemoveMessageAct(senderId, messageId)
    \/ \E senderId \in limits.senders : TimerFire(senderId)
    \/ FlushAllAct
    \/ Tick

vars == <<corrVars, procVars, phoneVars, clientVars, classifierVars, shutVars>>

Spec == Init /\ [][Next]_vars

SpecBurst == InitBurst /\ [][Next]_vars

SpecEvict == InitEvict /\ [][Next]_vars

\* Two senders, both cache ceilings scaled down, one text that fills no
\* slot: three sessions with different ids can be finalized.
CacheTexts == {"call me later"}

InitCaches ==
    InitCorr([seen |-> SmallSeenCeiling, seenEvict |-> SmallSeenCeiling \div 2,
              processed |-> SmallProcessedCeiling,
              processedEvict |-> SmallProcessedCeiling \div 2,
              senders |-> Senders, ids |-> 1..(NumIds + 1), maxStored |-> NumIds + 1,
              maxMessages |-> MaxMessages, listener |-> FALSE, texts |-> CacheTexts,
              timeout |-> DefaultTimeout])

SpecCaches == InitCaches /\ [][Next]_vars

\* MESSAGE_CORRELATION_TIMEOUT_SECONDS: unset (120), the 30 of the README,
\* and two shorter waits
ConfiguredTimeouts == {5, 20, PartialTimeout, DefaultTimeout}

\* The texts of SpecTimeouts: one for each slot and one that fills none
TimeoutTexts == {"9876543210", "Rahul Sharma", "near city road", "call me later"}

\* One sender, any of the configured default timeouts
InitTimeouts ==
    \E timeoutSeconds \in ConfiguredTimeouts :
        InitCorr([seen |-> SeenCeiling, seenEvict |-> SeenEvictCount,
                  processed |-> ProcessedCeiling, processedEvict |-> ProcessedEvictCount,
                  senders |-> {"s1"}, ids |-> 1..(NumIds + 1), maxStored |-> NumIds + 1,
                  maxMessages |-> MaxMessages + 1, listener |-> FALSE,
                  texts |-> TimeoutTexts, timeout |-> timeoutSeconds])

SpecTimeouts == InitTimeouts /\ [][Next]_vars

\* One sender whose texts are two mobile numbers and a name
InitSlots ==
    InitCorr([seen |-> SeenCeiling, seenEvict |-> SeenEvictCount,
              processed |-> ProcessedCeiling, processedEvict |-> ProcessedEvictCount,
              senders |-> {"s1"}, ids |-> 1..(NumIds + 1), maxStored |-> NumIds + 1,
              maxMessages |-> MaxMessages + 1, listener |-> FALSE, texts |-> SlotTexts,
              timeout |-> DefaultTimeout])

SpecSlots == InitSlots /\ [][Next]_vars

-----------------------------------------------------------------------------
(* The correlator of one sender with the 'session' listener attached: every *)
(* emitted record is handed to the Kafka producer.  Each call of             *)
(* producer.send is a request of its own; nothing orders the requests in     *)
(* flight but the order in which they were written, and the client retries   *)
(* a request that failed (retry: { retries: 8 }) after the requests written  *)
(* in the meantime.                                                          *)

InitQueue ==
    InitCorr([seen |-> SeenCeiling, seenEvict |-> SeenEvictCount,
              processed |-> ProcessedCeiling, processedEvict |-> ProcessedEvictCount,
              senders |-> {"s1"}, ids |-> 1..NumIds, maxStored |-> NumIds,
              maxMessages |-> MaxMessages, listener |-> TRUE, texts |-> BaseTexts,
              timeout |-> DefaultTimeout])

QueueFrame ==
    UNCHANGED <<limits, sessions, timers, orphanTimers, processedSessions,
                processedMessageIds, emitted, justEmitted, now, nextSerial, nStored,
                maxId, last, runnerFree, pc, cur, attempt, waits, parsed, err, db, parsedTopic,
                deadLetter, faults, handled, phoneVars, clientVars, classifierVars, shutVars>>

\* producer.send resolves: the record is in the raw-messages topic
SendDelivered ==
    /\ inFlight # <<>>
    /\ rawQueue' = Append(rawQueue, Head(inFlight))
    /\ inFlight' = Tail(inFlight)
    /\ QueueFrame

\* the request fails and the client sends it again
SendRetried ==
    /\ inFlight # <<>>
    /\ inFlight' = Append(Tail(inFlight), Head(inFlight))
    /\ UNCHANGED rawQueue
    /\ QueueFrame

\* producer.send rejects: send rethrows and the listener logs the error
SendFailed ==
    /\ inFlight # <<>>
    /\ inFlight' = Tail(inFlight)
    /\ UNCHANGED rawQueue
    /\ QueueFrame

NextQueue ==
    \/ \E message \in Messages : AddMessageAct(message)
    \/ \E senderId \in limits.senders, messageId \in limits.ids :
          RemoveMessageAct(senderId, messageId)
    \/ \E senderId \in limits.senders : TimerFire(senderId)
    \/ FlushAllAct
    \/ Tick
    \/ SendDelivered
    \/ SendRetried
    \/ SendFailed

SpecQueue == InitQueue /\ [][NextQueue]_vars

-----------------------------------------------------------------------------
(* The processing stage on its own: the raw queue holds NumItems items.     *)

CorrIdle ==
    /\ limits = [seen |-> SeenCeiling, seenEvict |-> SeenEvictCount,
                 processed |-> ProcessedCeiling, processedEvict |-> ProcessedEvictCount,
                 senders |-> Senders, ids |-> 1..NumIds, maxStored |-> NumIds,
                 maxMessages |-> MaxMessages, listener |-> FALSE, texts |-> BaseTexts,
              timeout |-> DefaultTimeout]
    /\ sessions = <<>>
    /\ timers = [s \in Senders |-> NoTimer]
    /\ orphanTimers = [s \in Senders |-> 0]
    /\ processedSessions = <<>>
    /\ processedMessageIds = <<>>
    /\ emitted = <<>>
    /\ justEmitted = <<>>
    /\ inFlight = <<>>
    /\ now = 0
    /\ nextSerial = 0
    /\ nStored = 0
    /\ maxId = 0
    /\ last = [op |-> "init", senderId |-> "none", outcome |-> "init"]

InitProc ==
    /\ CorrIdle
    /\ PhoneIdle
    /\ ClientIdle
    /\ ClassifierIdle
    /\ ShutIdle
    /\ rawQueue = [i \in Items |-> i]
    /\ runnerFree = TRUE
    /\ pc = "idle"
    /\ cur = 0
    /\ attempt = 0
    /\ waits = <<>>
    /\ parsed = NoResult
    /\ err = Null
    /\ db = <<>>
    /\ parsedTopic = <<>>
    /\ deadLetter = <<>>
    /\ faults = {}
    /\ handled = <<>>

NextProc ==
    \/ \E parses \in BOOLEAN : Consume(parses)
    \/ \E extracted \in Extractions : AttemptSucceeds(extracted)
    \/ AttemptFails
    \/ BackoffOver
    \/ \E saves \in BOOLEAN : ClassifyAndSave(saves)
    \/ \E sends \in BOOLEAN : SendParsed(sends)
    \/ \E broadcasts \in BOOLEAN : BroadcastAndReturn(broadcasts)
    \/ \E saves \in BOOLEAN : CatchAndSaveFailed(saves)
    \/ \E sends \in BOOLEAN, broadcasts \in BOOLEAN : ProcessDeadLetter(sends, broadcasts)
    \/ \E sends \in BOOLEAN : ConsumerDeadLetter(sends)

SpecProc == InitProc /\ [][NextProc]_vars

\* An answer of the extraction service with name, mobile and confidence 1
TypicalExtraction == [given |-> TRUE, confidence |-> 100, mobile |-> ExamplePhone]

\* The raw queue holds one more item; the extraction service, when it
\* answers, gives the typical answer.
InitSerial ==
    /\ CorrIdle
    /\ PhoneIdle
    /\ ClientIdle
    /\ ClassifierIdle
    /\ ShutIdle
    /\ rawQueue = [i \in SerialItems |-> i]
    /\ runnerFree = TRUE
    /\ pc = "idle"
    /\ cur = 0
    /\ attempt = 0
    /\ waits = <<>>
    /\ parsed = NoResult
    /\ err = Null
    /\ db = <<>>
    /\ parsedTopic = <<>>
    /\ deadLetter = <<>>
    /\ faults = {}
    /\ handled = <<>>

NextSerial ==
    \/ \E parses \in BOOLEAN : Consume(parses)
    \/ AttemptSucceeds(TypicalExtraction)
    \/ AttemptFails
    \/ BackoffOver
    \/ \E saves \in BOOLEAN : ClassifyAndSave(saves)
    \/ \E sends \in BOOLEAN : SendParsed(sends)
    \/ \E broadcasts \in BOOLEAN : BroadcastAndReturn(broadcasts)
    \/ \E saves \in BOOLEAN : CatchAndSaveFailed(saves)
    \/ \E sends \in BOOLEAN, broadcasts \in BOOLEAN : ProcessDeadLetter(sends, broadcasts)
    \/ \E sends \in BOOLEAN : ConsumerDeadLetter(sends)

SpecSerial == InitSerial /\ [][NextSerial]_vars

SpecSerialFair == SpecSerial /\ WF_vars(NextSerial)

\* Every call the handler awaits returns or throws, and the consumer keeps
\* polling: a step of the handler that can be taken is taken.
SpecProcFair == SpecProc /\ WF_vars(NextProc)

-----------------------------------------------------------------------------
(* normalizePhoneNumber on its own.  The arguments are built from runs of   *)
(* one character each, and the two examples of the specification.           *)

MaxRuns == 3

RunChars == {"+", "9", " "}
RunLengths == {1, 5, 10}

RECURSIVE Expand(_)
Expand(runs) ==
    IF runs = <<>> THEN <<>>
    ELSE [i \in 1..Head(runs)[2] |-> Head(runs)[1]] \o Expand(Tail(runs))

RunSeqs == UNION {[1..n -> RunChars \X RunLengths] : n \in 1..MaxRuns}

ShortPhone == <<"1", "2", "3", "4", "5">>

PhoneInputs == {Expand(runs) : runs \in RunSeqs} \cup {ExamplePhone, ShortPhone}

InitPhone ==
    /\ CorrIdle
    /\ ProcIdle
    /\ ClientIdle
    /\ ClassifierIdle
    /\ ShutIdle
    /\ phoneIn \in PhoneInputs
    /\ phoneOut = NullString
    /\ phoneDone = FALSE

NormalizeAct ==
    /\ ~phoneDone
    /\ phoneOut' = normalizePhoneNumber(phoneIn)
    /\ phoneDone' = TRUE
    /\ UNCHANGED <<phoneIn, corrVars, procVars, clientVars, classifierVars, shutVars>>

NextPhone == NormalizeAct

SpecPhone == InitPhone /\ [][NextPhone]_vars

-----------------------------------------------------------------------------
(* The WhatsApp client on its own *)

InitClient ==
    /\ CorrIdle
    /\ ProcIdle
    /\ PhoneIdle
    /\ ClassifierIdle
    /\ ShutIdle
    /\ allowedSender \in {AllowedSenderConfig(setting) : setting \in AllowedSenderSettings}
    /\ incoming = NoIncoming
    /\ nIncoming = 0
    /\ toCorrelator = <<>>

\* handleIncomingMessage(message); the 'message' event it emits is handled by
\* the listener of index.js, which calls sessionCorrelator.addMessage(message)
HandleIncomingMessage(message) ==
    /\ nIncoming < MaxIncoming
    /\ nIncoming' = nIncoming + 1
    /\ incoming' = message
    /\ LET senderNumber == SenderNumberOf(message.remoteJid)
       IN IF message.fromMe \/ ~message.hasText
             \/ ~SenderAllowed(allowedSender, senderNumber)
          THEN UNCHANGED toCorrelator
          ELSE toCorrelator' = Append(toCorrelator,
                                  [senderId |-> message.remoteJid,
                                   senderNumber |-> senderNumber,
                                   isGroup |-> message.remoteJid[Len(message.remoteJid)]
                                                   = GroupSuffix])
    /\ UNCHANGED <<allowedSender, corrVars, procVars, phoneVars, classifierVars, shutVars>>

NextClient == \E message \in IncomingMessages : HandleIncomingMessage(message)

SpecClient == InitClient /\ [][NextClient]_vars

-----------------------------------------------------------------------------
(* identifySlot on its own *)

InitClassifier ==
    /\ CorrIdle
    /\ ProcIdle
    /\ PhoneIdle
    /\ ClientIdle
    /\ ShutIdle
    /\ slotText \in BuiltTexts
    /\ slotLabel = Null

IdentifySlotAct ==
    /\ slotLabel = Null
    /\ slotLabel' = SlotOf(BuiltInfo(slotText))
    /\ UNCHANGED <<slotText, corrVars, procVars, phoneVars, clientVars, shutVars>>

NextClassifier == IdentifySlotAct

SpecClassifier == InitClassifier /\ [][NextClassifier]_vars

-----------------------------------------------------------------------------
(* Properties of the correlator *)

CorrelatorUntouched ==
    /\ UNCHANGED <<sessions, timers, processedSessions, processedMessageIds, emitted>>
    /\ justEmitted' = <<>>

\* C1 as stated: a call of addMessage whose id was submitted by an earlier
\* call (the ids are handed out in increasing order, so an id up to maxId has
\* been submitted before) changes no session, no slot, no timer and no cache.
C1_AnyRepeatedIdIsIgnored ==
    [][(last'.op = "add" /\ last'.repeated) => CorrelatorUntouched]_vars

\* C1 as amended: a call of addMessage whose id is still in the seen-message
\* cache changes no session, no slot, no timer and no cache, whatever its
\* sender and text.
C1_CachedIdIsIgnored ==
    [][(last'.op = "add" /\ last'.cached) => CorrelatorUntouched]_vars

\* A message whose id is in the cache has been submitted while a session is open.
C1_Witness ==
    /\ last.op = "add" /\ last.cached
    /\ sessions # <<>>
    /\ Len(processedMessageIds) >= 2

NoNoiseStored ==
    /\ \A i \in 1..Len(sessions) : \A j \in 1..Len(sessions[i].messages) :
          ~isNoise(sessions[i].messages[j].text)
    /\ \A i \in 1..Len(justEmitted) :
          /\ \A j \in 1..Len(justEmitted[i].messages) :
                ~isNoise(justEmitted[i].messages[j].text)
          /\ \A j \in 1..Len(justEmitted[i].combinedText) :
                ~isNoise(justEmitted[i].combinedText[j])

\* C2: addMessage of a noise text creates no session, changes no session and
\* no timer and emits nothing, and after every operation no session and no
\* emitted record holds a noise text.
C2_NoiseNeverEntersASession ==
    [][/\ (last'.op = "add" /\ last'.noise)
             => (UNCHANGED <<sessions, timers, emitted>> /\ justEmitted' = <<>>)
       /\ NoNoiseStored']_vars

\* A noise message has been submitted while a session is open.
C2_Witness ==
    /\ last.op = "add" /\ last.outcome = "noise"
    /\ sessions # <<>>

\* C3 as stated: addMessage of a message whose slot is already filled in the
\* sender's session emits the record of that session, without the new
\* message, and leaves the sender with a fresh session holding only the new
\* message.
C3_CollisionEmitsTheOldSession ==
    [][\A message \in Messages :
          (/\ AddMessageAct(message)
           /\ ~IsDuplicate(Corr, message.id)
           /\ ~isNoise(message.text)
           /\ SlotCollision(Corr, message))
          => LET old == GetSession(sessions, message.senderId)
             IN /\ Len(justEmitted') >= 1
                /\ justEmitted'[1] =
                      SessionData(old, SessionIdOf(message.senderId, old.startedAt))
                /\ HasSession(sessions', message.senderId)
                /\ GetSession(sessions', message.senderId).serial # old.serial
                /\ GetSession(sessions', message.senderId).messages =
                      <<[id |-> message.id, text |-> message.text]>>]_vars

\* C4: no two emitted records are records of the same session.
C4_OneRecordPerSession ==
    \A i, j \in 1..Len(emitted) : i # j => emitted[i].serial # emitted[j].serial

\* flushAll has run after a record was emitted and found nothing to emit.
C4_Witness ==
    /\ last.op = "flush"
    /\ Len(emitted) >= 1
    /\ justEmitted = <<>>

\* C5 as stated: flushAll emits one record for each active session and leaves
\* no active session.
C5_FlushEmitsEverySession ==
    [][FlushAllAct =>
          /\ Len(justEmitted') = Len(sessions)
          /\ {justEmitted'[i].senderId : i \in 1..Len(justEmitted')} =
                {sessions[i].senderId : i \in 1..Len(sessions)}
          /\ sessions' = <<>>]_vars

\* C6: removeMessage that removes the last message of a session deletes the
\* session and the sender's timer; and for a sender without a session a
\* finalize changes nothing, and a timer fire emits nothing and changes no
\* session and no cache.
C6_RevokeOfLastMessageEndsTheSession ==
    [][/\ (last'.op = "remove" /\ last'.outcome = "emptied")
             => (/\ ~HasSession(sessions', last'.senderId)
                 /\ timers'[last'.senderId] = NoTimer
                 /\ justEmitted' = <<>>)
       /\ \A senderId \in limits.senders :
             ~HasSession(sessions, senderId) =>
                /\ ProcessSession(Corr, senderId) = Corr
                /\ (last'.op = "fire" /\ last'.senderId = senderId) =>
                      (/\ UNCHANGED <<sessions, processedSessions,
                                      processedMessageIds, emitted>>
                       /\ justEmitted' = <<>>)]_vars

\* The last message of a session has been revoked while another sender has a
\* session.
C6_Witness ==
    /\ last.op = "remove" /\ last.outcome = "emptied"
    /\ ~HasSession(sessions, last.senderId)
    /\ timers[last.senderId] = NoTimer
    /\ sessions # <<>>

-----------------------------------------------------------------------------
(* Properties of the processing stage *)

InSuccessSink(item) == \E k \in 1..Len(parsedTopic) : parsedTopic[k].sessionId = item

InDeadLetterSink(item) == \E k \in 1..Len(deadLetter) : deadLetter[k].item = item

DeadLetterSendFailed(item) ==
    \E k \in 1..Len(handled) : handled[k].item = item /\ "deadLetter" \in handled[k].faults

IsFailedResult(row, item) ==
    /\ row.sessionId = item
    /\ row.status = "failed"
    /\ row.extracted.name = Null
    /\ row.extracted.address = Null
    /\ row.extracted.mobile = NullString
    /\ row.extracted.confidence = 0

\* C7 as stated: once the handling of an item whose extraction call failed on
\* all three attempts (and for which nothing else failed) has ended, the
\* stored result of the item has status failed, name, address and mobile null
\* and confidence 0, and the dead-letter sink holds an entry for the item.
C7_ExhaustedRetriesAreDeadLettered ==
    \A k \in 1..Len(handled) :
        (handled[k].exhausted /\ handled[k].faults = {"extract"})
            => /\ IsFailedResult(RowOf(db, handled[k].item), handled[k].item)
               /\ InDeadLetterSink(handled[k].item)

StoredResults == Range(db) \cup Range(parsedTopic)

\* C9 as stated: a stored or forwarded result of a successful extraction that
\* returned the confidence c has status low_confidence if c < 0.3 and
\* processed if c >= 0.3, and no result of a successful extraction has status
\* failed.
C9_StatusFollowsReturnedConfidence ==
    \A row \in StoredResults :
        /\ (row.succeeded /\ row.returned.given)
              => row.status = IF row.returned.confidence < LowConfidence
                              THEN "low_confidence"
                              ELSE "processed"
        /\ row.status = "failed" => ~row.succeeded

-----------------------------------------------------------------------------
(* Properties of normalizePhoneNumber *)

\* The normalization as C10 words it: every character that is not a digit or
\* a leading plus is stripped and the leading plus is dropped, which leaves
\* the digits.
C10_Stripped(phone) == SelectSeq(phone, LAMBDA c : c \in Digits)

\* C10 as stated: the result is the stripped string when its length is between
\* 10 and 15, the argument otherwise, and never the empty string.
C10_NormalizedIsTheStrippedString ==
    phoneDone =>
        /\ phoneOut = IF Len(C10_Stripped(phoneIn)) < MinPhoneLength
                          \/ Len(C10_Stripped(phoneIn)) > MaxPhoneLength
                      THEN phoneIn
                      ELSE C10_Stripped(phoneIn)
        /\ phoneOut # <<>>

-----------------------------------------------------------------------------
(* Properties of the retry loop *)

InRetryLoop == pc \in {"extract", "backoff"}

RetryLoopIsBounded ==
    /\ attempt \in 0..maxRetries
    /\ Len(waits) <= 2
    /\ \A i \in 1..Len(waits) : waits[i] = 2 ^ i
    /\ pc = "extract" => Len(waits) = attempt - 1
    /\ pc = "backoff" => (Len(waits) = attempt /\ attempt < maxRetries)
    /\ (cur # 0 /\ ~InRetryLoop /\ "parse" \notin faults) =>
          /\ Len(waits) = attempt - 1
          /\ parsed.succeeded \/ (attempt = maxRetries /\ parsed.error # Null)

\* C11: for one consumed item the extraction call is made at most 3 times
\* (attempt counts the calls), nothing is called after the first call that
\* succeeds, the waits are 2 after a failed attempt 1 and 4 after a failed
\* attempt 2 and none after a failed attempt 3, and the loop is always left.
C11_RetryIsBoundedAndEnds ==
    /\ []RetryLoopIsBounded
    /\ InRetryLoop ~> ~InRetryLoop

\* The third attempt has failed after waits of 2 and 4, and the loop is left.
C11_Witness ==
    /\ pc = "save"
    /\ attempt = maxRetries
    /\ parsed.error # Null
    /\ waits = <<2, 4>>

-----------------------------------------------------------------------------
(* Properties of the timers *)

LiveTimers(senderId) ==
    orphanTimers[senderId] + (IF timers[senderId].pending THEN 1 ELSE 0)

\* C12: each sender has at most one scheduled timeout, and none that
\* this.timers does not refer to: a timeout that was replaced or whose entry
\* was deleted has been cancelled, so it cannot fire.
C12_OnePendingTimerPerSender ==
    \A senderId \in limits.senders :
        /\ LiveTimers(senderId) <= 1
        /\ orphanTimers[senderId] = 0

\* addMessage has stored a message and re-armed the timer of a sender whose
\* timer was scheduled, and the new timer is scheduled.
C12_Witness ==
    /\ last.op = "add" /\ last.outcome = "stored" /\ last.rearmed
    /\ timers[last.senderId].pending

ExpectedTimeout(slots) ==
    IF slots.name # Null /\ slots.mobile # Null THEN 10
    ELSE IF slots.name # Null \/ slots.mobile # Null \/ slots.address # Null THEN 30
    ELSE limits.timeout

\* C13: when addMessage has stored a message and the session is still in the
\* store, the sender's timer is scheduled, armed at the time of the call, with
\* 10 if name and mobile are filled, otherwise 30 if one of name, mobile and
\* address is filled, otherwise the configured default.
C13_TimeoutFollowsTheSlots ==
    (/\ last.op = "add"
     /\ last.outcome \in {"stored", "collision"}
     /\ HasSession(sessions, last.senderId))
    => timers[last.senderId] =
          [pending |-> TRUE,
           dur |-> ExpectedTimeout(GetSession(sessions, last.senderId).slots),
           armedAt |-> now,
           set |-> TRUE]

\* A message has been stored in a session that has both name and mobile.
C13_Witness ==
    /\ last.op = "add" /\ last.outcome = "stored"
    /\ HasSession(sessions, last.senderId)
    /\ GetSession(sessions, last.senderId).slots.name # Null
    /\ GetSession(sessions, last.senderId).slots.mobile # Null
    /\ timers[last.senderId].dur = 10

-----------------------------------------------------------------------------
(* Properties of the session store *)

\* C14: when addMessage stores a message that brings the sender's session to
\* the configured maximum, the session has left the store when the call
\* returns, and its record, with that message, has been emitted by the call
\* unless its session id had been finalized before; and no session in the
\* store ever holds the maximum or more messages.
C14_FullSessionIsFinalizedAtOnce ==
    /\ [][(/\ last'.op = "add"
           /\ last'.outcome = "stored"
           /\ HasSession(sessions, last'.senderId)
           /\ Len(GetSession(sessions, last'.senderId).messages) + 1 >= limits.maxMessages)
          => LET old == GetSession(sessions, last'.senderId)
             IN /\ ~HasSession(sessions', last'.senderId)
                /\ \/ /\ Len(justEmitted') = 1
                      /\ justEmitted'[1].serial = old.serial
                      /\ justEmitted'[1].messageCount = Len(old.messages) + 1
                   \/ /\ justEmitted' = <<>>
                      /\ SessionIdOf(old.senderId, old.startedAt)
                            \in Range(processedSessions)]_vars
    /\ [](\A i \in 1..Len(sessions) : Len(sessions[i].messages) < limits.maxMessages)

\* A stored message has filled a session to the maximum and the session's
\* record has been emitted.
C14_Witness ==
    /\ last.op = "add" /\ last.outcome = "stored"
    /\ ~HasSession(sessions, last.senderId)
    /\ Len(justEmitted) = 1
    /\ justEmitted[1].messageCount = limits.maxMessages

\* C15: every session in the store holds at least one message.
C15_NoEmptySessionInTheStore ==
    \A i \in 1..Len(sessions) : Len(sessions[i].messages) >= 1

\* The only message of a session has been revoked, nothing was emitted for
\* it, and the session is gone.
C15_Witness ==
    /\ last.op = "remove" /\ last.outcome = "emptied"
    /\ ~HasSession(sessions, last.senderId)
    /\ emitted = <<>>

-----------------------------------------------------------------------------
(* Properties of the raw queue *)

EmittedBefore(a, b) ==
    \E i, j \in 1..Len(emitted) :
        i < j /\ emitted[i].serial = a /\ emitted[j].serial = b

\* C16 as stated: the records in the raw-messages topic are keyed by the
\* sender, and two records of one sender that are both in the topic stand
\* there in the order in which their sessions were finalized.
C16_RawQueueKeepsFinalizeOrder ==
    \A i, j \in 1..Len(rawQueue) :
        /\ rawQueue[i].key \in limits.senders
        /\ (i < j /\ rawQueue[i].key = rawQueue[j].key)
              => ~EmittedBefore(rawQueue[j].serial, rawQueue[i].serial)

-----------------------------------------------------------------------------
(* Properties of the consumer *)

WasHandled(item) == \E k \in 1..Len(handled) : handled[k].item = item

\* C17: when the handler of a queued item starts, no handler is in progress:
\* every item taken from the raw queue before has been handled to the end,
\* retry waits and routing to a sink included.
C17_NextItemWaitsForTheCurrentOne ==
    [][rawQueue' # rawQueue =>
          /\ pc = "idle"
          /\ cur = 0
          /\ \A item \in SerialItems :
                item \notin Range(rawQueue) => WasHandled(item)]_vars

\* The second item is being handled after the first went through both waits
\* of the retry loop.
C17_Witness ==
    /\ cur = 2
    /\ pc = "extract"
    /\ \E k \in 1..Len(handled) : handled[k].item = 1 /\ handled[k].exhausted

\* The handling of the item ended with an exception at the boundary of
\* eachMessage: the payload did not parse or process threw.
RaisedException(h) == h.process \in {"not called", "threw"}

C19_ExhaustedRetriesPropagateToTheCaller ==
    \A k \in 1..Len(handled) :
        (handled[k].exhausted /\ handled[k].faults = {"extract"})
            => /\ handled[k].process = "threw"
               /\ RowOf(db, handled[k].item).status = "failed"
               /\ \E j \in 1..Len(deadLetter) :
                     deadLetter[j].item = handled[k].item /\ deadLetter[j].from = "process"

-----------------------------------------------------------------------------
(* Properties of the WhatsApp client *)

\* C20 as stated: when an allowed sender is configured, every message passed
\* to addMessage has the configured allowed number as its sender number.
C20_OnlyTheAllowedSenderReachesTheCorrelator ==
    allowedSender # NullString =>
        \A k \in 1..Len(toCorrelator) :
            toCorrelator[k].senderNumber = StripNonDigits(allowedSender)

-----------------------------------------------------------------------------
(* Further properties of the correlator *)

InStore(ss, serial) == \E i \in 1..Len(ss) : ss[i].serial = serial

\* C21 as stated: a session that leaves the session store leaves it by a
\* finalize that emits its record or by a revoke that empties it, and whenever
\* a finalize of a sender emits a record, it leaves the sender without a
\* session and without a timer and the session id in the finalized-session
\* cache.
C21_SessionLeavesByEmitOrRevoke ==
    /\ [][\A i \in 1..Len(sessions) :
             ~InStore(sessions', sessions[i].serial)
                => \/ \E k \in 1..Len(justEmitted') :
                         justEmitted'[k].serial = sessions[i].serial
                   \/ /\ last'.op = "remove" /\ last'.outcome = "emptied"
                      /\ last'.senderId = sessions[i].senderId]_vars
    /\ [](\A senderId \in limits.senders :
             LET after == ProcessSession(Corr, senderId)
             IN after.justEmitted # <<>>
                   => /\ ~HasSession(after.sessions, senderId)
                      /\ after.timers[senderId] = NoTimer
                      /\ after.justEmitted[1].sessionId \in Range(after.processedSessions))

WithSerial(ss, serial) == ss[CHOOSE i \in 1..Len(ss) : ss[i].serial = serial]

\* The operation that produced the state stored its message into the
\* session that the sender had.
StoredInto(l, session) ==
    l.op = "add" /\ l.outcome = "stored" /\ l.senderId = session.senderId

\* C22: the messages of a session are at all times the messages stored into
\* it and not revoked, in arrival order, and every emitted record holds the
\* messages its session had at finalize, their texts in the same order as
\* combinedText and their number as messageCount.
C22_RecordHoldsTheSessionsMessages ==
    [][/\ \A i \in 1..Len(sessions') :
             LET session == sessions'[i]
             IN IF InStore(sessions, session.serial)
                THEN LET old == WithSerial(sessions, session.serial)
                     IN session.messages =
                           IF StoredInto(last', old)
                           THEN Append(old.messages, [id |-> last'.id, text |-> last'.text])
                           ELSE IF last'.op = "remove" /\ last'.senderId = old.senderId
                           THEN SelectSeq(old.messages, LAMBDA m : m.id # last'.id)
                           ELSE old.messages
                ELSE /\ last'.op = "add"
                     /\ session.messages = <<[id |-> last'.id, text |-> last'.text]>>
       /\ \A k \in 1..Len(justEmitted') :
             LET record == justEmitted'[k]
             IN /\ InStore(sessions, record.serial)
                /\ LET old == WithSerial(sessions, record.serial)
                   IN record.messages =
                         IF StoredInto(last', old)
                         THEN Append(old.messages, [id |-> last'.id, text |-> last'.text])
                         ELSE old.messages
                /\ record.messageCount = Len(record.messages)
                /\ record.combinedText =
                      [j \in 1..Len(record.messages) |-> record.messages[j].text]]_vars

\* A timer fire has emitted the record of a session into which three messages
\* were stored and whose second message was revoked.
C22_Witness ==
    /\ last.op = "fire"
    /\ Len(justEmitted) = 1
    /\ [j \in 1..Len(justEmitted[1].messages) |-> justEmitted[1].messages[j].id] = <<1, 3>>
    /\ justEmitted[1].messageCount = 2

NothingEmittedOrStored ==
    /\ UNCHANGED <<sessions, processedSessions, processedMessageIds, emitted>>
    /\ justEmitted' = <<>>

\* C23: removeMessage for a sender without a session or for an id that is
\* not in the sender's session, a timer fire for a sender without a session
\* and a finalize for a sender without a session emit nothing and change no
\* session, no cache and no entry of the timer table (the timeout that fired
\* is spent, its handle stays in the table).
C23_BenignViolationsAreNoOps ==
    /\ [][/\ (last'.op = "remove" /\ last'.outcome = "absent")
                => (NothingEmittedOrStored /\ UNCHANGED <<timers, orphanTimers>>)
          /\ (last'.op = "fire" /\ last'.outcome = "absent")
                => /\ NothingEmittedOrStored
                   /\ \A senderId \in limits.senders :
                         /\ timers'[senderId].set = timers[senderId].set
                         /\ senderId # last'.senderId
                               => timers'[senderId] = timers[senderId]]_vars
    /\ [](\A senderId \in limits.senders :
             ~HasSession(sessions, senderId)
                => ProcessSession(Corr, senderId) = Corr)

\* The timer of a sender without a session has fired after a record was
\* emitted.
C23_Witness ==
    /\ last.op = "fire" /\ last.outcome = "absent" /\ last.which = "current"
    /\ ~HasSession(sessions, last.senderId)
    /\ Len(emitted) >= 1
    /\ justEmitted = <<>>

\* C24: removeMessage that leaves the session non-empty changes nothing but
\* the message list of that session: slots, startedAt and timers stay as they
\* are; and a message that is stored while the sender's session has the
\* message's slot filled ends that session, whether or not the message that
\* filled the slot is still in it.
C24_RevokeKeepsSlotsAndTimer ==
    [][/\ (last'.op = "remove" /\ last'.outcome = "removed")
             => LET old == GetSession(sessions, last'.senderId)
                IN /\ sessions' =
                         SetSession(sessions,
                             [old EXCEPT !.messages =
                                 SelectSeq(@, LAMBDA m : m.id # last'.id)])
                   /\ UNCHANGED <<timers, orphanTimers, processedSessions,
                                  processedMessageIds, emitted>>
                   /\ justEmitted' = <<>>
       /\ (/\ last'.op = "add"
           /\ last'.outcome \in {"stored", "collision"}
           /\ HasSession(sessions, last'.senderId)
           /\ identifySlot(last'.text) # "unknown"
           /\ GetSession(sessions, last'.senderId).slots[identifySlot(last'.text)] # Null)
             => /\ ~InStore(sessions', GetSession(sessions, last'.senderId).serial)
                /\ GetSession(sessions', last'.senderId).messages =
                      <<[id |-> last'.id, text |-> last'.text]>>]_vars

\* A message has collided with a slot whose message had been revoked: the
\* record emitted for the old session has the mobile slot filled by a text
\* that none of its messages has.
C24_Witness ==
    /\ last.op = "add" /\ last.outcome = "collision"
    /\ Len(justEmitted) = 1
    /\ justEmitted[1].slots.mobile # Null
    /\ \A j \in 1..Len(justEmitted[1].messages) :
          justEmitted[1].messages[j].text # justEmitted[1].slots.mobile

SlotNames == {"name", "mobile", "address"}

\* C25: in a session that stays in the store a filled slot keeps its value,
\* an empty slot is filled only by the message that is being stored into
\* that session, with its text, and a session that enters the store has no
\* slot filled but by the text of its first message.
C25_FilledSlotIsNeverOverwritten ==
    [][\A i \in 1..Len(sessions') :
          LET session == sessions'[i]
          IN \A k \in SlotNames :
                IF InStore(sessions, session.serial)
                THEN LET old == WithSerial(sessions, session.serial)
                     IN IF old.slots[k] # Null
                        THEN session.slots[k] = old.slots[k]
                        ELSE session.slots[k] # Null
                                => /\ StoredInto(last', old)
                                   /\ identifySlot(last'.text) = k
                                   /\ session.slots[k] = last'.text
                ELSE session.slots[k] # Null
                        => /\ last'.op = "add" /\ last'.senderId = session.senderId
                           /\ identifySlot(last'.text) = k
                           /\ session.slots[k] = last'.text]_vars

\* The second message of a session has filled a second slot of it.
C25_Witness ==
    /\ last.op = "add" /\ last.outcome = "stored"
    /\ HasSession(sessions, last.senderId)
    /\ LET session == GetSession(sessions, last.senderId)
       IN /\ Len(session.messages) = 2
          /\ FilledSlots(session.slots) = 2
          /\ session.slots[identifySlot(last.text)] = last.text

\* What a cache holds after `entry` was inserted: over the ceiling, all but
\* the oldest `count` entries.
AfterInsertion(cache, entry, ceiling, count) ==
    LET full == Append(cache, entry)
    IN IF Len(full) > ceiling THEN SubSeq(full, count + 1, Len(full)) ELSE full

\* C26: neither cache ever holds more entries than its ceiling; an insertion
\* that pushes a cache over its ceiling removes the oldest half of the
\* ceiling in the same step and nothing else, and the entry inserted is the
\* newest entry of the cache afterwards.
C26_CachesAreBoundedWithBatchEviction ==
    /\ SeenEvictCount * 2 = SeenCeiling
    /\ ProcessedEvictCount * 2 = ProcessedCeiling
    /\ [][/\ Len(processedMessageIds') <= limits.seen
          /\ Len(processedSessions') <= limits.processed
          /\ (last'.op = "add" /\ last'.outcome # "duplicate")
                => /\ processedMessageIds' =
                         AfterInsertion(processedMessageIds, last'.id,
                                        limits.seen, limits.seenEvict)
                   /\ processedMessageIds'[Len(processedMessageIds')] = last'.id
          /\ Len(justEmitted') = 1
                => /\ processedSessions' =
                         AfterInsertion(processedSessions, justEmitted'[1].sessionId,
                                        limits.processed, limits.processedEvict)
                   /\ processedSessions'[Len(processedSessions')] =
                         justEmitted'[1].sessionId
          /\ justEmitted' = <<>> => UNCHANGED processedSessions]_vars

\* Both caches have lost their oldest entries: the seen-message cache no
\* longer holds id 1 and the finalized-session cache no longer holds the id
\* of the first record emitted.
C26_Witness ==
    /\ Len(emitted) >= 3
    /\ emitted[1].sessionId \notin Range(processedSessions)
    /\ emitted[Len(emitted)].sessionId \in Range(processedSessions)
    /\ maxId >= 3
    /\ 1 \notin Range(processedMessageIds)
    /\ Len(justEmitted) = 1

\* What the correlator holds for one sender: the session and the timer
SenderState(st, senderId) ==
    [session |-> SelectSeq(st.sessions, LAMBDA e : e.senderId = senderId),
     timer |-> st.timers[senderId],
     orphans |-> st.orphans[senderId]]

NoRecordFor(records, senderId) ==
    \A k \in 1..Len(records) : records[k].senderId # senderId

\* C27: addMessage, removeMessage and a timer fire for one sender leave the
\* session and the timer of every other sender as they are and emit no record
\* for another sender, and so does a finalize of one sender's session in any
\* state.
C27_SendersAreIndependent ==
    /\ [][last'.op \in {"add", "remove", "fire"}
             => \A other \in limits.senders \ {last'.senderId} :
                   /\ SenderState(Corr', other) = SenderState(Corr, other)
                   /\ NoRecordFor(justEmitted', other)]_vars
    /\ [](\A senderId \in limits.senders : \A other \in limits.senders \ {senderId} :
             LET after == ProcessSession(Corr, senderId)
             IN /\ SenderState(after, other) = SenderState(Corr, other)
                /\ NoRecordFor(after.justEmitted, other))

\* The timer of one sender has fired and emitted that sender's record while
\* another sender has a session and a pending timer.
C27_Witness ==
    /\ last.op = "fire"
    /\ Len(justEmitted) = 1
    /\ justEmitted[1].senderId = last.senderId
    /\ \E other \in limits.senders \ {last.senderId} :
          HasSession(sessions, other) /\ timers[other].pending

\* C28 as stated: when a message is stored into a session and fills one more
\* slot of it, the timer armed for the sender has a duration that is not
\* longer than the duration of the timer that was armed before, whatever the
\* configured default timeout.
C28_TimeoutNeverLengthensAsSlotsFill ==
    [][(/\ last'.op = "add" /\ last'.outcome = "stored"
        /\ HasSession(sessions, last'.senderId)
        /\ HasSession(sessions', last'.senderId)
        /\ GetSession(sessions', last'.senderId).serial =
              GetSession(sessions, last'.senderId).serial
        /\ FilledSlots(GetSession(sessions', last'.senderId).slots) >
              FilledSlots(GetSession(sessions, last'.senderId).slots)
        /\ timers[last'.senderId].set)
          => timers'[last'.senderId].dur <= timers[last'.senderId].dur]_vars

-----------------------------------------------------------------------------
(* Properties of the text classifier *)

\* C29 as stated: identifySlot returns mobile if a word of the text has the
\* phone-number shape, else name if the trimmed text is two or three
\* capitalized words with single blanks between them, else address if a word
\* is an address keyword or the text has more than 5 whitespace-separated
\* tokens (words), else unknown.
C29_SlotFollowsThePriorityOrder ==
    slotLabel # Null =>
        slotLabel =
            IF \E i \in 1..Len(slotText.words) : WordInfo[slotText.words[i]].mobile
            THEN "mobile"
            ELSE IF /\ Len(slotText.words) \in {2, 3}
                    /\ \A i \in 1..Len(slotText.words) :
                          WordInfo[slotText.words[i]].capitalized
                    /\ ~slotText.wide
            THEN "name"
            ELSE IF \/ \E i \in 1..Len(slotText.words) :
                          WordInfo[slotText.words[i]].keyword
                    \/ Len(slotText.words) > 5
            THEN "address"
            ELSE "unknown"

-----------------------------------------------------------------------------
(* Further properties of normalizePhoneNumber *)

\* C30 as stated: a value returned by normalizePhoneNumber that differs from
\* the argument consists of digits only and has between 10 and 15 characters.
C30_ChangedValueIsAllDigits ==
    (phoneDone /\ phoneOut # phoneIn)
        => /\ \A i \in 1..Len(phoneOut) : phoneOut[i] \in Digits
           /\ Len(phoneOut) >= MinPhoneLength
           /\ Len(phoneOut) <= MaxPhoneLength

-----------------------------------------------------------------------------
(* Properties of the session id *)

\* C31 as stated: no session in the store has a session id that the
\* finalized-session cache already holds (the id of another session of the
\* sender), and no finalize removes a session with messages from the store
\* without emitting its record.
C31_NoSessionIsDroppedUnemitted ==
    /\ [](\A i \in 1..Len(sessions) :
             SessionIdOf(sessions[i].senderId, sessions[i].startedAt)
                 \notin Range(processedSessions))
    /\ [][\A i \in 1..Len(sessions) :
             (/\ Len(sessions[i].messages) >= 1
              /\ ~InStore(sessions', sessions[i].serial)
              /\ last'.op # "remove")
                => \E k \in 1..Len(emitted') : emitted'[k].serial = sessions[i].serial]_vars

\* The number of places that hold message id m: positions in the messages of
\* the sessions in the store and in the ids of the emitted records.
RECURSIVE PlacesIn(_, _, _)
PlacesIn(seqs, n, m) ==
    IF n = 0 THEN 0
    ELSE Len(SelectSeq(seqs[n], LAMBDA id : id = m)) + PlacesIn(seqs, n - 1, m)

Occurrences(ss, em, m) ==
    PlacesIn([i \in 1..Len(ss) |->
                 [j \in 1..Len(ss[i].messages) |-> ss[i].messages[j].id]], Len(ss), m)
    + PlacesIn([k \in 1..Len(em) |-> em[k].ids], Len(em), m)

\* C32 as stated: across all emitted records, each message id appears in at
\* most one record, and at most once within that record.
C32_EachIdInAtMostOneRecord ==
    \A k1, k2 \in 1..Len(emitted) :
        \A j1 \in 1..Len(emitted[k1].ids), j2 \in 1..Len(emitted[k2].ids) :
            emitted[k1].ids[j1] = emitted[k2].ids[j2] => (k1 = k2 /\ j1 = j2)

\* C32, amended: a message id gets one more place in the sessions and the
\* emitted records only by an addMessage of that id at a moment when the
\* seen-message cache does not hold it, and then exactly one; finalizing moves
\* the ids of a session into one record and copies none.  So an id is in two
\* records, or twice in one, only if it was evicted from the cache and
\* delivered again.
C32_IdIsRepeatedOnlyAfterEviction ==
    [][(sessions' # sessions \/ emitted' # emitted)
          => \A m \in limits.ids :
                LET before == Occurrences(sessions, emitted, m)
                    after == Occurrences(sessions', emitted', m)
                IN after > before
                      => /\ last'.op = "add" /\ last'.id = m
                         /\ m \notin Range(processedMessageIds)
                         /\ after = before + 1]_vars

\* An id evicted from the cache and delivered again is in two records.
C32_Witness ==
    \E k1, k2 \in 1..Len(emitted) :
        /\ k1 # k2
        /\ \E j1 \in 1..Len(emitted[k1].ids), j2 \in 1..Len(emitted[k2].ids) :
              emitted[k1].ids[j1] = emitted[k2].ids[j2]

\* C33 as stated: after every completed operation a sender has an entry in
\* the timer table exactly when it has a session in the store.
C33_TimerEntryIffSession ==
    \A senderId \in limits.senders :
        timers[senderId].set <=> HasSession(sessions, senderId)

-----------------------------------------------------------------------------
(* Liveness of the correlator *)

\* The sender sends while the clock is below its last instant and then sends
\* no more, so that every timer armed can run out.
AddMessageWhileSending(message) ==
    /\ now < MaxTime
    /\ AddMessageAct(message)

InitLive ==
    InitCorr([seen |-> SeenCeiling, seenEvict |-> SeenEvictCount,
              processed |-> ProcessedCeiling, processedEvict |-> ProcessedEvictCount,
              senders |-> {"s1"}, ids |-> 1..NumIds, maxStored |-> NumIds,
              maxMessages |-> MaxMessages, listener |-> FALSE, texts |-> BaseTexts,
              timeout |-> DefaultTimeout])

NextLive ==
    \/ \E message \in Messages : AddMessageWhileSending(message)
    \/ \E senderId \in limits.senders, messageId \in limits.ids :
          RemoveMessageAct(senderId, messageId)
    \/ \E senderId \in limits.senders : TimerFire(senderId)
    \/ FlushAllAct
    \/ Tick

\* Time passes, and a timeout that is scheduled and due runs its callback.
SpecLive ==
    /\ InitLive /\ [][NextLive]_vars
    /\ WF_vars(Tick)
    /\ \A senderId \in Senders : WF_vars(TimerFire(senderId))

InSomeSession(m) ==
    \E i \in 1..Len(sessions) : \E j \in 1..Len(sessions[i].messages) :
        sessions[i].messages[j].id = m

InSomeRecord(m) ==
    \E k \in 1..Len(emitted) : \E j \in 1..Len(emitted[k].ids) : emitted[k].ids[j] = m

Revoked(m) ==
    /\ last.op = "remove"
    /\ \/ last.outcome = "removed" /\ last.id = m
       \/ last.outcome = "emptied"
    /\ ~InSomeSession(m)

\* C34 as stated: if armed timers eventually fire and the sender eventually
\* stops sending, every session that enters the store is eventually removed
\* from it, and every message stored in a session is eventually in an emitted
\* record unless it is revoked.
C34_SessionsEndAndMessagesAreEmitted ==
    /\ \A serial \in 1..(NumIds + 1) :
          InStore(sessions, serial) ~> ~InStore(sessions, serial)
    /\ \A m \in 1..(NumIds + 1) :
          InSomeSession(m) ~> (InSomeRecord(m) \/ Revoked(m))

\* The first half of C34 alone
C34_EverySessionLeavesTheStore ==
    \A serial \in 1..(NumIds + 1) :
        InStore(sessions, serial) ~> ~InStore(sessions, serial)

-----------------------------------------------------------------------------
(* The size of a record *)

\* C35: every emitted record has a messageCount of at least 1 and at most
\* maxMessagesPerSession, and holds that many messages.
C35_MessageCountIsWithinOneAndTheMaximum ==
    /\ \A i \in 1..Len(justEmitted) :
          /\ justEmitted[i].messageCount >= 1
          /\ justEmitted[i].messageCount <= limits.maxMessages
          /\ justEmitted[i].messageCount = Len(justEmitted[i].messages)
    /\ \A k \in 1..Len(emitted) :
          /\ Len(emitted[k].ids) >= 1
          /\ Len(emitted[k].ids) <= limits.maxMessages

\* A record with the maximum has been emitted by the addMessage that filled
\* the session, after a record of the other sender.
C35_Witness ==
    /\ last.op = "add"
    /\ Len(justEmitted) = 1
    /\ justEmitted[1].messageCount = limits.maxMessages
    /\ \E k \in 1..Len(emitted) : emitted[k].sessionId[1] # last.senderId

-----------------------------------------------------------------------------
(* From finalize to the raw queue *)

\* C36 as stated: an emitted record is never lost between finalize and the
\* raw queue: every record emitted is on the raw queue or is still held by a
\* send that has not given up (no dead-letter entry is written on this path).
C36_EmittedRecordIsQueuedOrKept ==
    \A k \in 1..Len(emitted) :
        \/ \E q \in 1..Len(rawQueue) : rawQueue[q].serial = emitted[k].serial
        \/ \E f \in 1..Len(inFlight) : inFlight[f].serial = emitted[k].serial

-----------------------------------------------------------------------------
(* The two sinks of the processing stage *)

\* C37 as stated: no item is in both sinks (an item whose result is in the
\* parsed-messages topic has no dead-letter entry), and no result with status
\* failed is in the parsed-messages topic.
C37_NeverInBothSinksAndNoFailedResultForwarded ==
    /\ \A item \in SerialItems : ~(InSuccessSink(item) /\ InDeadLetterSink(item))
    /\ \A k \in 1..Len(parsedTopic) : parsedTopic[k].status # "failed"

\* The first half of C37 alone
C37_NeverInBothSinks ==
    \A item \in SerialItems : ~(InSuccessSink(item) /\ InDeadLetterSink(item))

\* The second half of C37 alone
C37_NoFailedResultForwarded ==
    \A k \in 1..Len(parsedTopic) : parsedTopic[k].status # "failed"

\* C38 as stated: the one handling of an item writes at most one dead-letter
\* entry for it, counting the entry written by process and the entry written
\* by the error handler of the consumer.
C38_AtMostOneDeadLetterEntryPerItem ==
    \A item \in SerialItems :
        Cardinality({k \in 1..Len(deadLetter) : deadLetter[k].item = item}) <= 1

-----------------------------------------------------------------------------
(* The contacts table under redelivery *)

\* The raw queue delivers item 1 again at its end (the consumer commits
\* offsets after handling, so an item can be delivered more than once).
Redelivered == [i \in SerialItems |-> IF i = NumItems + 1 THEN 1 ELSE i]

InitStore ==
    /\ CorrIdle
    /\ PhoneIdle
    /\ ClientIdle
    /\ ClassifierIdle
    /\ ShutIdle
    /\ rawQueue = Redelivered
    /\ runnerFree = TRUE
    /\ pc = "idle"
    /\ cur = 0
    /\ attempt = 0
    /\ waits = <<>>
    /\ parsed = NoResult
    /\ err = Null
    /\ db = <<>>
    /\ parsedTopic = <<>>
    /\ deadLetter = <<>>
    /\ faults = {}
    /\ handled = <<>>

SpecStore == InitStore /\ [][NextSerial]_vars

RowsOf(table, sessionId) == {k \in 1..Len(table) : table[k].sessionId = sessionId}

\* C39: the contacts table holds at most one row for a sessionId, and a save
\* replaces the row of the sessionId by the result saved: after the save of
\* the success path the row is the result process goes on with, after the
\* save of the failure path it is the failed entry with the error; the rows
\* of other sessionIds stay.
C39_OneRowPerSessionIdAndTheLatestWins ==
    /\ [](\A item \in SerialItems : Cardinality(RowsOf(db, item)) <= 1)
    /\ [][db' # db =>
            /\ pc \in {"save", "catch"}
            /\ db'[Len(db')] = RowOf(db', cur)
            /\ pc = "save" => RowOf(db', cur) = parsed'
            /\ pc = "catch" => /\ RowOf(db', cur).status = "failed"
                               /\ RowOf(db', cur).error = err
            /\ \A item \in SerialItems \ {cur} : RowOf(db', item) = RowOf(db, item)]_vars

\* Item 1 was handled with success, is delivered again, and the failure path
\* of the second handling has replaced the row of the first by a failed one.
C39_Witness ==
    /\ \E k \in 1..Len(handled) : handled[k].item = 1 /\ handled[k].faults = {}
    /\ \E k \in 1..Len(parsedTopic) :
          parsedTopic[k].sessionId = 1 /\ parsedTopic[k].status = "processed"
    /\ cur = 1
    /\ pc = "processDeadLetter"
    /\ "store" \notin faults
    /\ RowOf(db, 1).status = "failed"

-----------------------------------------------------------------------------
(* Shutdown: the application with the 'session' listener attached receives  *)
(* shutdown signals.  The handler runs flushAll, which emits synchronously   *)
(* and starts one send per record, then awaits the WhatsApp client and the   *)
(* servers, then disconnects Kafka and exits.  While it awaits, the event    *)
(* loop runs the other callbacks.                                            *)

MaxSignals == 2

Alive == shutdownPc # "exited"

\* Until whatsappClient.disconnect has ended, messages and revokes arrive.
Receiving == shutdownPc \in {"running", "stopping"}

\* shutdown(signal), up to its first await: the guard on isShuttingDown and
\* sessionCorrelator.flushAll()
Shutdown ==
    /\ Alive
    /\ signals < MaxSignals
    /\ signals' = signals + 1
    /\ IF isShuttingDown
       THEN UNCHANGED <<corrVars, isShuttingDown, shutdownPc, flushes, shutdownEmitted>>
       ELSE /\ isShuttingDown' = TRUE
            /\ SetCorrFields(FlushAll(Corr))
            /\ flushes' = flushes + 1
            /\ shutdownEmitted' = {FlushAll(Corr).justEmitted[i].serial :
                                      i \in 1..Len(FlushAll(Corr).justEmitted)}
            /\ shutdownPc' = "stopping"
            /\ last' = [op |-> "flush", senderId |-> "all", outcome |-> "flushed"]
            /\ UNCHANGED <<limits, now, maxId>>
    /\ UNCHANGED <<isProducerConnected, disconnects, procVars, phoneVars, clientVars,
                   classifierVars>>

\* await whatsappClient.disconnect(); await apiServer.stop(); websocket.close();
\* if one of them throws, the catch block exits the process.
StopServers(stops) ==
    /\ shutdownPc = "stopping"
    /\ shutdownPc' = IF stops THEN "disconnecting" ELSE "exited"
    /\ UNCHANGED <<corrVars, procVars, phoneVars, clientVars, classifierVars,
                   isShuttingDown, isProducerConnected, signals, flushes, disconnects,
                   shutdownEmitted>>

\* await kafkaClient.disconnect(), up to the await of consumer.disconnect:
\* producer.disconnect() and isProducerConnected = false.  The sends in flight
\* are awaited by nobody; what becomes of them is left open.
KafkaDisconnect ==
    /\ shutdownPc = "disconnecting"
    /\ isProducerConnected' = FALSE
    /\ disconnects' = disconnects + 1
    /\ shutdownPc' = "closing"
    /\ UNCHANGED <<corrVars, procVars, phoneVars, clientVars, classifierVars,
                   isShuttingDown, signals, flushes, shutdownEmitted>>

\* consumer.disconnect(), database.close(), process.exit(0)
Exit ==
    /\ shutdownPc = "closing"
    /\ shutdownPc' = "exited"
    /\ UNCHANGED <<corrVars, procVars, phoneVars, clientVars, classifierVars,
                   isShuttingDown, isProducerConnected, signals, flushes, disconnects,
                   shutdownEmitted>>

NextShutdown ==
    \/ \E message \in Messages : Receiving /\ AddMessageAct(message)
    \/ \E senderId \in limits.senders, messageId \in limits.ids :
          Receiving /\ RemoveMessageAct(senderId, messageId)
    \/ \E senderId \in limits.senders : Alive /\ TimerFire(senderId)
    \/ Alive /\ Tick
    \/ Alive /\ SendDelivered
    \/ Alive /\ SendRetried
    \/ Alive /\ SendFailed
    \/ Shutdown
    \/ \E stops \in BOOLEAN : StopServers(stops)
    \/ KafkaDisconnect
    \/ Exit

SpecShutdown == InitQueue /\ [][NextShutdown]_vars

OnRawQueue(serial) == \E q \in 1..Len(rawQueue) : rawQueue[q].serial = serial

\* C40 as stated: once the producer has been disconnected by the shutdown,
\* every record emitted by the flushAll of the shutdown is on the raw queue;
\* and the shutdown calls flushAll and kafkaClient.disconnect at most once,
\* however many signals arrive.
C40_OrderlyShutdown ==
    /\ disconnects >= 1 => \A serial \in shutdownEmitted : OnRawQueue(serial)
    /\ flushes <= 1
    /\ disconnects <= 1

\* The second half of C40 alone: a second signal starts no second flush or
\* disconnect.
C40_OneFlushAndOneDisconnect ==
    /\ flushes <= 1
    /\ disconnects <= 1
    /\ signals >= 1 => isShuttingDown

=============================================================================
